---- MODULE Spec2Model ----
(***************************************************************************)
(* A model of the per-torrent engine of rain (session/run.go,              *)
(* session/unchoke code in session/session.go) and of the piece-download   *)
(* state machine (internal/downloader/piecedownloader/piecedownloader.go). *)
(*                                                                         *)
(* The specifications of the module, one group per component:              *)
(*   SpecPD, SpecPDFast, SpecPDPipeline, FairSpecPD : one PieceDownloader  *)
(*        and the peer feeding its PieceC / RejectC / ChokeC / UnchokeC    *)
(*        channels.                                                        *)
(*   SpecConn, SpecPieces, SpecChoke, SpecUnchoke, SpecCompletion,         *)
(*        SpecLifecycle : the torrent event loop, followed through its     *)
(*        connection cases, its piece pipeline, its choke timers (with and *)
(*        without disconnecting peers), its completion and its start and   *)
(*        stop.                                                            *)
(*   SpecPeerConn : peerconn.Peer, its Run and the callers of Close.       *)
(*   SpecSession : the port pool of the session.                           *)
(*   SpecInfoDownloader : one InfoDownloader.                              *)
(***************************************************************************)
EXTENDS Integers, Sequences, FiniteSets, TLC

VARIABLES
    \* ---- PieceDownloader (piecedownloader.go:14-25) ----
    pieceLength,   \* d.Piece.Length, in bytes
    blocks,        \* d.blocks : block index -> [requested, data]; data is the
                   \* length of the stored slice, NoData for nil
    limiter,       \* d.limiter : LimiterNil, or the number of tokens buffered
    pdState,       \* position of Run: "running", "returned", "blocked"
    DoneC,         \* values emitted on d.DoneC (length of each buffer)
    ErrC,          \* values emitted on d.ErrC
    peerClosed,    \* d.Peer.Close() has been called by the downloader
    \* ---- the peer at the other end of the channels ----
    outstanding,   \* block index -> Requests received from us, not yet answered
    peerChoking,   \* last of Choke / Unchoke delivered to the downloader
    chokeSeen,     \* a Choke has been delivered at least once
    rejected,      \* blocks whose requested flag a Reject cleared, not requested since
    badReject,     \* a Reject for a block with requested = false has been delivered
    nRejects,      \* RejectRequest inputs delivered so far
    nChokes,       \* Choke and Unchoke inputs delivered so far
    allowedFast,   \* the peer supports the Fast extension and the piece is in its AllowedFast set
    \* ---- torrent (session/torrent.go:43-248), owned by the event loop ----
    config,                  \* t.config: UnchokedPeers, OptimisticUnchokedPeers,
                             \* MaxPeerAccept, MaxPeerDial
    pieces,                  \* the piece indices of the torrent
    bitfield,                \* t.bitfield: the pieces we have
    pieceWriting,            \* pieces with Piece.Writing = true
    pieceDone,               \* pieces with Piece.Done = true
    pieceMessages,           \* t.pieceMessages: "chan" or "nil"
    blockPieceMessages,      \* t.blockPieceMessages: "chan" or "nil"
    writers,                 \* piece-writer tasks started, result not yet handled
    peers,                   \* t.peers
    incomingPeers,           \* t.incomingPeers
    outgoingPeers,           \* t.outgoingPeers
    peerIDs,                 \* t.peerIDs
    connectedPeerIPs,        \* t.connectedPeerIPs
    incomingHandshakers,     \* t.incomingHandshakers
    outgoingHandshakers,     \* t.outgoingHandshakers
    addrList,                \* t.addrList
    pieceDownloaders,        \* t.pieceDownloaders: peer -> piece, NoPiece
    pe,                      \* per peer: AmChoking, PeerInterested, OptimisticUnchoked,
                             \* pieceC (the channel handed to pe.Run), the two
                             \* choke-period byte counters
    peerHas,                 \* what piecePicker.DoesHave answers: peer -> pieces
    optimisticUnchokedPeers, \* t.optimisticUnchokedPeers
    completed,               \* t.completed
    status,                  \* "Running", "Stopping", "Stopped"
    lastError,               \* t.lastError
    \* ---- what the loop has sent and signalled ----
    haveSent,                \* peer -> the Have messages the latest step sent to it
    needMorePeers,           \* last value given to setNeedMorePeers
    completeCClosed,         \* times close(t.completeC) ran
    panicked,                \* the loop hit panic("already have the piece")
    lastTick,                \* the timer case handled by the latest step, if any
    chokeRepeated,           \* a Choke or Unchoke went to a peer out of turn
    lastWriteResult,         \* the writer result handled by the latest step, if any
    errC,                    \* t.errC: "nil" or "chan"
    errCValues,              \* the values sent on the channel t.errC last held
    stoppedEventAnnouncer,   \* t.stoppedEventAnnouncer: "nil" or "set"
    announcersStoppedC,      \* signals waiting in t.announcersStoppedC
    sendOnNil,               \* the loop is blocked in a send on a nil errC
    \* ---- peerconn.Peer (peer.go:14-23) and the tasks around it ----
    closeC,                  \* p.closeC has been closed
    closedC,                 \* p.closedC has been closed
    connClosed,              \* p.conn.Close() has been called
    readerDone,              \* the reader task has exited and closed readerDone
    writerDone,              \* the writer task has exited and closed writerDone
    runPC,                   \* position of Peer.Run: "init", "select", "wait", "done"
    selected,                \* the case Run's select took, "none" before
    waiting,                 \* the channels Run still has to receive from, in order
    closePC                  \* caller of Peer.Close -> "idle", "waiting", "returned", "panicked"

pdVars == <<pieceLength, blocks, limiter, pdState, DoneC, ErrC, peerClosed,
            outstanding, peerChoking, chokeSeen, rejected, badReject, nRejects, nChokes,
            allowedFast>>

engVars == <<config, pieces, bitfield, pieceWriting, pieceDone, pieceMessages,
             blockPieceMessages, writers, peers, incomingPeers, outgoingPeers, peerIDs,
             connectedPeerIPs, incomingHandshakers, outgoingHandshakers, addrList,
             pieceDownloaders, pe, peerHas, optimisticUnchokedPeers, completed, status,
             lastError, haveSent, needMorePeers, completeCClosed, panicked, lastTick,
             chokeRepeated, lastWriteResult, errC, errCValues, stoppedEventAnnouncer,
             announcersStoppedC, sendOnNil>>

connVars == <<closeC, closedC, connClosed, readerDone, writerDone, runPC, selected,
              waiting, closePC>>

\* the session: its port pool and its torrents
VARIABLES
    availablePorts,          \* s.availablePorts
    torrents,                \* s.torrents: the port of each torrent id, NoPort without torrent
    nextID,                  \* the next fresh torrent id
    addPC,                   \* where each caller of AddTorrent / AddURI stands
    addPort,                 \* the port the caller's add() took
    removedID,               \* the id passed to RemoveTorrent by the latest step, if any
    infoHashOf,              \* t.torrent.InfoHash() of each torrent id, NoInfoHash without torrent
    torrentsByInfoHash       \* s.torrentsByInfoHash: the ids appended under each info-hash

sessVars == <<availablePorts, torrents, nextID, addPC, addPort, removedID, infoHashOf,
              torrentsByInfoHash>>

\* one InfoDownloader
VARIABLES
    metadataSize,            \* d.Peer.ExtensionHandshake.MetadataSize
    infoBlocks,              \* d.blocks
    infoRequested,           \* d.requested
    nextBlockIndex,          \* d.nextBlockIndex
    requestLog,              \* the indices of the metadata requests sent so far, in order
    lastRequest,             \* the call of RequestBlocks made by the latest step, if any
    Bytes,                   \* d.Bytes, as the byte ranges <<begin, end>> copied into it
    lastGot,                 \* the call of GotBlock made by the latest step, if any
    infoPanicked             \* an index or slice bound was out of range

infoVars == <<metadataSize, infoBlocks, infoRequested, nextBlockIndex, requestLog,
              lastRequest, Bytes, lastGot, infoPanicked>>

vars == <<pdVars, engVars, connVars, sessVars, infoVars>>

\* a step of one component leaves the others alone
\* Run leaves the peer's capabilities alone
OnlyPD == UNCHANGED <<allowedFast, engVars, connVars, sessVars, infoVars>>
OnlyEngine == UNCHANGED <<pdVars, connVars, sessVars, infoVars>>
OnlyPeerConn == UNCHANGED <<pdVars, engVars, sessVars, infoVars>>
OnlySession == UNCHANGED <<pdVars, engVars, connVars, infoVars>>
OnlyInfoDownloader == UNCHANGED <<pdVars, engVars, connVars, sessVars>>

-----------------------------------------------------------------------------
(* Bounds of the model *)

\* largest number of blocks of the piece under SpecPD
MaxBlocks == 3
\* RejectRequest inputs per run
MaxRejects == 2
\* Choke / Unchoke inputs per run
MaxChokes == 3

-----------------------------------------------------------------------------
(* Program constants *)

\* piecedownloader.go:11
maxQueuedBlocks == 10

\* infodownloader.go:10, 16 KiB; pieces are cut into blocks of the same size
blockSize == 16384

\* block.data == nil
NoData == -1
\* d.limiter == nil; otherwise the number of tokens in the channel
LimiterNil == -1

-----------------------------------------------------------------------------
(* piece.Piece.Blocks: blocks of 16 KiB, the last possibly shorter *)

NumBlocks(len) == (len + blockSize - 1) \div blockSize

BlockLength(len, i) ==
    IF i = NumBlocks(len) - 1 /\ len % blockSize # 0
    THEN len % blockSize
    ELSE blockSize

BlockIdx == DOMAIN blocks

-----------------------------------------------------------------------------
(* piecedownloader.New *)

New(len) ==
    /\ pieceLength = len
    /\ blocks = [i \in 0 .. NumBlocks(len) - 1 |-> [requested |-> FALSE, data |-> NoData]]
    /\ limiter = 0
    /\ pdState = "running"
    /\ DoneC = <<>>
    /\ ErrC = <<>>
    /\ peerClosed = FALSE
    /\ outstanding = [i \in 0 .. NumBlocks(len) - 1 |-> 0]
    /\ peerChoking = FALSE
    /\ chokeSeen = FALSE
    /\ rejected = {}
    /\ badReject = FALSE
    /\ nRejects = 0
    /\ nChokes = 0

-----------------------------------------------------------------------------
(* Helpers of the downloader *)

\* nextBlock: the lowest index whose requested flag is false, -1 for nil
nextBlock(bs) ==
    LET free == {i \in DOMAIN bs : ~bs[i].requested}
    IN  IF free = {} THEN -1
        ELSE CHOOSE i \in free : \A j \in free : i <= j

\* allDone looking at the requested flags instead of the data
allDoneByRequested(bs) == \A i \in DOMAIN bs : bs[i].requested

allDone(bs) == \A i \in DOMAIN bs : bs[i].data # NoData

RECURSIVE SumData(_, _)
SumData(bs, n) == IF n = 0 THEN 0 ELSE SumData(bs, n - 1) + bs[n - 1].data

\* assembleBlocks: the concatenation of every block's data, as its length
assembleBlocks(bs) == SumData(bs, Cardinality(DOMAIN bs))

-----------------------------------------------------------------------------
(* The cases of the select in PieceDownloader.Run *)

\* case d.limiter <- struct{}{}, SendRequest returning err (sendOK = FALSE) or nil
LimiterCase(sendOK) ==
    /\ pdState = "running"
    /\ limiter # LimiterNil
    /\ limiter < maxQueuedBlocks
    /\ LET b == nextBlock(blocks)
       IN  IF b = -1
           THEN /\ limiter' = LimiterNil
                /\ sendOK
                /\ UNCHANGED <<pieceLength, blocks, pdState, DoneC, ErrC, peerClosed,
                               outstanding, peerChoking, chokeSeen, rejected, badReject,
                               nRejects, nChokes>>
           ELSE /\ blocks' = [blocks EXCEPT ![b].requested = TRUE]
                /\ limiter' = limiter + 1
                /\ rejected' = rejected \ {b}
                /\ IF sendOK
                   THEN /\ outstanding' = [outstanding EXCEPT ![b] = @ + 1]
                        /\ UNCHANGED <<pdState, ErrC>>
                   ELSE /\ ErrC' = Append(ErrC, "send request")
                        /\ pdState' = "returned"
                        /\ UNCHANGED outstanding
                /\ UNCHANGED <<pieceLength, DoneC, peerClosed, peerChoking,
                               chokeSeen, badReject, nRejects, nChokes>>

\* case p := <-d.PieceC, p.Block.Index = i, len(p.Data) = the block's length
PieceCase(i) ==
    /\ pdState = "running"
    /\ i \in BlockIdx
    /\ LET takes == blocks[i].requested /\ blocks[i].data = NoData /\ limiter # LimiterNil
           bs2 == [blocks EXCEPT ![i].data = BlockLength(pieceLength, i)]
       IN  IF takes /\ limiter = 0
           THEN \* <-d.limiter on an empty channel nobody else sends to
                /\ pdState' = "blocked"
                /\ UNCHANGED <<blocks, limiter, DoneC>>
           ELSE /\ limiter' = IF takes THEN limiter - 1 ELSE limiter
                /\ blocks' = bs2
                /\ IF allDone(bs2)
                   THEN /\ DoneC' = Append(DoneC, assembleBlocks(bs2))
                        /\ pdState' = "returned"
                   ELSE UNCHANGED <<DoneC, pdState>>
    /\ outstanding' = [outstanding EXCEPT ![i] = IF @ > 0 THEN @ - 1 ELSE 0]
    /\ rejected' = IF pdState' = "blocked" THEN rejected ELSE rejected \ {i}
    /\ UNCHANGED <<pieceLength, ErrC, peerClosed, peerChoking, chokeSeen, badReject,
                   nRejects, nChokes>>

\* the RejectC case dropping a reject of an unrequested block
RejectCaseIgnoringInvalid(i) ==
    /\ pdState = "running"
    /\ i \in BlockIdx
    /\ nRejects < MaxRejects
    /\ nRejects' = nRejects + 1
    /\ IF ~blocks[i].requested
       THEN /\ badReject' = TRUE
            /\ UNCHANGED <<peerClosed, ErrC, pdState, blocks, rejected>>
       ELSE /\ blocks' = [blocks EXCEPT ![i].requested = FALSE]
            /\ rejected' = rejected \cup {i}
            /\ UNCHANGED <<peerClosed, ErrC, pdState, badReject>>
    /\ outstanding' = [outstanding EXCEPT ![i] = IF @ > 0 THEN @ - 1 ELSE 0]
    /\ UNCHANGED <<pieceLength, limiter, DoneC, peerChoking, chokeSeen, nChokes>>

\* case req := <-d.RejectC, the handler looks the block up at index i
RejectCase(i) ==
    /\ pdState = "running"
    /\ i \in BlockIdx
    /\ nRejects < MaxRejects
    /\ nRejects' = nRejects + 1
    /\ IF ~blocks[i].requested
       THEN /\ peerClosed' = TRUE
            /\ ErrC' = Append(ErrC, "received invalid reject message")
            /\ pdState' = "returned"
            /\ badReject' = TRUE
            /\ UNCHANGED <<blocks, rejected>>
       ELSE /\ blocks' = [blocks EXCEPT ![i].requested = FALSE]
            /\ rejected' = rejected \cup {i}
            /\ UNCHANGED <<peerClosed, ErrC, pdState, badReject>>
    /\ outstanding' = [outstanding EXCEPT ![i] = IF @ > 0 THEN @ - 1 ELSE 0]
    /\ UNCHANGED <<pieceLength, limiter, DoneC, peerChoking, chokeSeen, nChokes>>

\* case <-d.ChokeC
ChokeCase ==
    /\ pdState = "running"
    /\ nChokes < MaxChokes
    /\ nChokes' = nChokes + 1
    /\ blocks' = [i \in DOMAIN blocks |->
                    IF blocks[i].data = NoData /\ blocks[i].requested
                    THEN [blocks[i] EXCEPT !.requested = FALSE]
                    ELSE blocks[i]]
    /\ limiter' = LimiterNil
    /\ peerChoking' = TRUE
    /\ chokeSeen' = TRUE
    /\ UNCHANGED <<pieceLength, pdState, DoneC, ErrC, peerClosed, outstanding, rejected,
                   badReject, nRejects>>

\* case <-d.UnchokeC
UnchokeCase ==
    /\ pdState = "running"
    /\ nChokes < MaxChokes
    /\ nChokes' = nChokes + 1
    /\ limiter' = 0
    /\ peerChoking' = FALSE
    /\ UNCHANGED <<pieceLength, blocks, pdState, DoneC, ErrC, peerClosed, outstanding,
                   chokeSeen, rejected, badReject, nRejects>>

\* the stopC case reporting the stop on ErrC
StopCaseEmitting ==
    /\ pdState = "running"
    /\ pdState' = "returned"
    /\ ErrC' = Append(ErrC, "stopped")
    /\ UNCHANGED <<pieceLength, blocks, limiter, DoneC, peerClosed, outstanding,
                   peerChoking, chokeSeen, rejected, badReject, nRejects, nChokes>>

\* case <-stopC
StopCase ==
    /\ pdState = "running"
    /\ pdState' = "returned"
    /\ UNCHANGED <<pieceLength, blocks, limiter, DoneC, ErrC, peerClosed, outstanding,
                   peerChoking, chokeSeen, rejected, badReject, nRejects, nChokes>>

-----------------------------------------------------------------------------
(* peerconn.Peer: Run, its reader and writer tasks, and the callers of Close *)

\* tasks that may call Peer.Close, each any number of times
NumClosers == 2

Closers == 1 .. NumClosers

\* peerconn.New: both channels open, nothing started
NewConn ==
    /\ closeC = FALSE
    /\ closedC = FALSE
    /\ connClosed = FALSE
    /\ readerDone = FALSE
    /\ writerDone = FALSE
    /\ runPC = "init"
    /\ selected = "none"
    /\ waiting = <<>>
    /\ closePC = [k \in Closers |-> "idle"]

\* a panic in any task ends the process
Alive == \A k \in Closers : closePC[k] # "panicked"

IsClosed(ch) ==
    IF ch = "closeC" THEN closeC
    ELSE IF ch = "readerDone" THEN readerDone
    ELSE writerDone

\* the closeC case returning without the receive from writerDone
RunWaitsReaderOnly(sel) ==
    IF sel = "closeC" THEN <<"readerDone">>
    ELSE IF sel = "readerDone" THEN <<"writerDone">>
    ELSE <<"readerDone">>

\* the receives that follow p.conn.Close() in the case the select took
RunWaits(sel) ==
    IF sel = "closeC" THEN <<"readerDone", "writerDone">>
    ELSE IF sel = "readerDone" THEN <<"writerDone">>
    ELSE <<"readerDone">>

\* Run up to the select: both tasks are started
RunStart ==
    /\ Alive
    /\ runPC = "init"
    /\ runPC' = "select"
    /\ UNCHANGED <<closeC, closedC, connClosed, readerDone, writerDone, selected,
                   waiting, closePC>>

\* the select takes a ready case and closes the connection
RunSelect ==
    /\ Alive
    /\ runPC = "select"
    /\ \E sel \in {"closeC", "readerDone", "writerDone"} :
          /\ IsClosed(sel)
          /\ selected' = sel
          /\ waiting' = RunWaits(sel)
    /\ connClosed' = TRUE
    /\ runPC' = "wait"
    /\ UNCHANGED <<closeC, closedC, readerDone, writerDone, closePC>>

\* a receive of the taken case; after the last one Run returns and the
\* deferred close(p.closedC) runs
RunWait ==
    /\ Alive
    /\ runPC = "wait"
    /\ IF waiting = <<>>
       THEN /\ runPC' = "done"
            /\ closedC' = TRUE
            /\ UNCHANGED waiting
       ELSE /\ IsClosed(Head(waiting))
            /\ waiting' = Tail(waiting)
            /\ UNCHANGED <<runPC, closedC>>
    /\ UNCHANGED <<closeC, connClosed, readerDone, writerDone, selected, closePC>>

\* p.reader.Run returns (stop signal, read error, connection closed) and the
\* task closes readerDone
ReaderExits ==
    /\ Alive
    /\ runPC # "init"
    /\ ~readerDone
    /\ readerDone' = TRUE
    /\ UNCHANGED <<closeC, closedC, connClosed, writerDone, runPC, selected, waiting,
                   closePC>>

\* p.writer.Run returns and the task closes writerDone
WriterExits ==
    /\ Alive
    /\ runPC # "init"
    /\ ~writerDone
    /\ writerDone' = TRUE
    /\ UNCHANGED <<closeC, closedC, connClosed, readerDone, runPC, selected, waiting,
                   closePC>>

\* Peer.Close, first statement: close(p.closeC) panics on a closed channel
CloseCall(k) ==
    /\ Alive
    /\ closePC[k] \in {"idle", "returned"}
    /\ IF closeC
       THEN /\ closePC' = [closePC EXCEPT ![k] = "panicked"]
            /\ UNCHANGED closeC
       ELSE /\ closeC' = TRUE
            /\ closePC' = [closePC EXCEPT ![k] = "waiting"]
    /\ UNCHANGED <<closedC, connClosed, readerDone, writerDone, runPC, selected, waiting>>

\* Peer.Close, second statement: <-p.closedC
CloseReturn(k) ==
    /\ Alive
    /\ closePC[k] = "waiting"
    /\ closedC
    /\ closePC' = [closePC EXCEPT ![k] = "returned"]
    /\ UNCHANGED <<closeC, closedC, connClosed, readerDone, writerDone, runPC, selected,
                   waiting>>

-----------------------------------------------------------------------------
(* session.Session: the port pool (session.go) *)

\* ports of the range PortBegin .. PortEnd - 1
NumPorts == 2
Ports == 1 .. NumPorts

\* torrent ids handed out over the life of the session
MaxTorrents == 3
TorrentIDs == 1 .. MaxTorrents

\* concurrent callers of AddTorrent / AddURI
NumCallers == 2
Callers == 1 .. NumCallers

\* no port: the id has no torrent, the caller holds no port
NoPort == 0
\* no id
NoID == 0

\* info-hashes of the torrents added; a map without the key is the empty list
NumInfoHashes == 2
InfoHashes == 1 .. NumInfoHashes
\* no info-hash: the id has no torrent
NoInfoHash == 0

\* New followed by loadExistingTorrents: the torrents 1 .. n of the database
\* hold the ports 1 .. n
NewSession(n) ==
    /\ availablePorts = Ports \ (1 .. n)
    /\ torrents = [i \in TorrentIDs |-> IF i <= n THEN i ELSE NoPort]
    /\ nextID = n + 1
    /\ addPC = [k \in Callers |-> "idle"]
    /\ addPort = [k \in Callers |-> NoPort]
    /\ removedID = NoID
    /\ infoHashOf = [i \in TorrentIDs |-> IF i <= n THEN 1 ELSE NoInfoHash]
    /\ torrentsByInfoHash =
          [ih \in InfoHashes |-> IF ih = 1 THEN [i \in 1 .. n |-> i] ELSE <<>>]

\* releasePort
releasePort(ports, port) == ports \cup {port}

\* add(): getPort fails on an empty pool, else takes any port of the map
AddGetPort(k) ==
    /\ addPC[k] = "idle"
    /\ nextID <= MaxTorrents
    /\ IF availablePorts = {}
       THEN UNCHANGED <<availablePorts, addPC, addPort>>
       ELSE \E p \in availablePorts :
               /\ availablePorts' = availablePorts \ {p}
               /\ addPC' = [addPC EXCEPT ![k] = "add"]
               /\ addPort' = [addPort EXCEPT ![k] = p]
    /\ removedID' = NoID
    /\ UNCHANGED <<torrents, nextID, infoHashOf, torrentsByInfoHash>>

\* add(): boltdbresumer.New or filestorage.New fails, the deferred call
\* releases the port
AddFail(k) ==
    /\ addPC[k] = "add"
    /\ availablePorts' = releasePort(availablePorts, addPort[k])
    /\ addPC' = [addPC EXCEPT ![k] = "idle"]
    /\ addPort' = [addPort EXCEPT ![k] = NoPort]
    /\ removedID' = NoID
    /\ UNCHANGED <<torrents, nextID, infoHashOf, torrentsByInfoHash>>

\* add() returns without error; the caller defers its own release
AddOK(k) ==
    /\ addPC[k] = "add"
    /\ addPC' = [addPC EXCEPT ![k] = "hold"]
    /\ removedID' = NoID
    /\ UNCHANGED <<availablePorts, torrents, nextID, addPort, infoHashOf, torrentsByInfoHash>>

\* AddTorrent / addMagnet: opt.NewTorrent or Resumer.Write fails, err is set
\* when the deferred call runs
AddTorrentFail(k) ==
    /\ addPC[k] = "hold"
    /\ availablePorts' = releasePort(availablePorts, addPort[k])
    /\ addPC' = [addPC EXCEPT ![k] = "idle"]
    /\ addPort' = [addPort EXCEPT ![k] = NoPort]
    /\ removedID' = NoID
    /\ UNCHANGED <<torrents, nextID, infoHashOf, torrentsByInfoHash>>

\* AddTorrent / addMagnet: newTorrent registers the torrent under a fresh id
\* and appends it to the list of its info-hash, whatever that list holds;
\* the result of t2.Start() is returned without being assigned to err
AddTorrentOK(k) ==
    /\ addPC[k] = "hold"
    /\ nextID <= MaxTorrents
    /\ torrents' = [torrents EXCEPT ![nextID] = addPort[k]]
    /\ \E ih \in InfoHashes :
          /\ infoHashOf' = [infoHashOf EXCEPT ![nextID] = ih]
          /\ torrentsByInfoHash' = [torrentsByInfoHash EXCEPT ![ih] = Append(@, nextID)]
    /\ nextID' = nextID + 1
    /\ addPC' = [addPC EXCEPT ![k] = "idle"]
    /\ addPort' = [addPort EXCEPT ![k] = NoPort]
    /\ removedID' = NoID
    /\ UNCHANGED availablePorts

\* RemoveTorrent forgetting the port
RemoveTorrentKeepingPort(id) ==
    /\ removedID' = id
    /\ IF torrents[id] = NoPort
       THEN UNCHANGED <<availablePorts, torrents, infoHashOf, torrentsByInfoHash>>
       ELSE /\ torrents' = [torrents EXCEPT ![id] = NoPort]
            /\ infoHashOf' = [infoHashOf EXCEPT ![id] = NoInfoHash]
            /\ torrentsByInfoHash' = [torrentsByInfoHash EXCEPT ![infoHashOf[id]] = <<>>]
            /\ UNCHANGED availablePorts
    /\ UNCHANGED <<nextID, addPC, addPort>>

\* RemoveTorrent: delete(s.torrentsByInfoHash, ih) drops the whole list of the
\* info-hash
RemoveTorrent(id) ==
    /\ removedID' = id
    /\ IF torrents[id] = NoPort
       THEN UNCHANGED <<availablePorts, torrents, infoHashOf, torrentsByInfoHash>>
       ELSE /\ torrents' = [torrents EXCEPT ![id] = NoPort]
            /\ infoHashOf' = [infoHashOf EXCEPT ![id] = NoInfoHash]
            /\ torrentsByInfoHash' = [torrentsByInfoHash EXCEPT ![infoHashOf[id]] = <<>>]
            /\ availablePorts' = releasePort(availablePorts, torrents[id])
    /\ UNCHANGED <<nextID, addPC, addPort>>

-----------------------------------------------------------------------------
(* infodownloader.InfoDownloader (infodownloader.go) *)

\* largest number of metadata blocks
MaxInfoBlocks == 3
\* largest queueLength passed to RequestBlocks
MaxQueueLength == 2

\* no call of RequestBlocks in the step
NoRequestCall == [called |-> FALSE, queueLength |-> 0, sent |-> <<>>]

\* no call of GotBlock in the step
NoGotCall == [called |-> FALSE, index |-> 0, len |-> 0, err |-> FALSE]

\* createBlocks giving every block blockSize bytes
createBlocksAllFull(size) ==
    LET mod == size % blockSize
        numBlocks == IF mod # 0 THEN size \div blockSize + 1 ELSE size \div blockSize
    IN  [i \in 0 .. numBlocks - 1 |-> [size |-> blockSize]]

\* createBlocks: blocks of blockSize bytes, the last one shorter when the
\* size is not a multiple of blockSize
createBlocks(size) ==
    LET mod == size % blockSize
        numBlocks == IF mod # 0 THEN size \div blockSize + 1 ELSE size \div blockSize
    IN  [i \in 0 .. numBlocks - 1 |->
            [size |-> IF mod # 0 /\ numBlocks > 0 /\ i = numBlocks - 1
                      THEN mod ELSE blockSize]]

NumInfoBlocks == Cardinality(DOMAIN infoBlocks)

\* New
NewInfoDownloader(size) ==
    /\ metadataSize = size
    /\ infoBlocks = createBlocks(size)
    /\ infoRequested = {}
    /\ nextBlockIndex = 0
    /\ requestLog = <<>>
    /\ lastRequest = NoRequestCall
    /\ Bytes = {}
    /\ lastGot = NoGotCall
    /\ infoPanicked = FALSE

\* the state RequestBlocks works on, with the requests it sends
D == [requested |-> infoRequested, nextBlockIndex |-> nextBlockIndex, sent |-> <<>>]

\* the loop of RequestBlocks going on while len(d.requested) <= queueLength
RECURSIVE requestLoopInclusive(_, _)
requestLoopInclusive(d, queueLength) ==
    IF d.nextBlockIndex < NumInfoBlocks /\ Cardinality(d.requested) <= queueLength
    THEN requestLoopInclusive([d EXCEPT !.sent = Append(@, d.nextBlockIndex),
                                        !.requested = @ \cup {d.nextBlockIndex},
                                        !.nextBlockIndex = @ + 1],
                              queueLength)
    ELSE d

\* the loop of RequestBlocks
RECURSIVE requestLoop(_, _)
requestLoop(d, queueLength) ==
    IF d.nextBlockIndex < NumInfoBlocks /\ Cardinality(d.requested) < queueLength
    THEN requestLoop([d EXCEPT !.sent = Append(@, d.nextBlockIndex),
                               !.requested = @ \cup {d.nextBlockIndex},
                               !.nextBlockIndex = @ + 1],
                     queueLength)
    ELSE d

RequestBlocks(queueLength) ==
    LET d == requestLoop(D, queueLength)
    IN  /\ ~infoPanicked
        /\ lastGot' = NoGotCall
        /\ UNCHANGED <<Bytes, infoPanicked>>
        /\ infoRequested' = d.requested
        /\ nextBlockIndex' = d.nextBlockIndex
        /\ requestLog' = requestLog \o d.sent
        /\ lastRequest' = [called |-> TRUE, queueLength |-> queueLength, sent |-> d.sent]
        /\ UNCHANGED <<metadataSize, infoBlocks>>

\* GotBlock removing the index before it looks at the length of the data
GotBlockDeletingFirst(index, len) ==
    /\ ~infoPanicked
    /\ IF index \notin infoRequested
       THEN /\ lastGot' = [called |-> TRUE, index |-> index, len |-> len, err |-> TRUE]
            /\ UNCHANGED <<infoRequested, Bytes, infoPanicked>>
       ELSE IF index \notin DOMAIN infoBlocks
       THEN /\ infoPanicked' = TRUE
            /\ lastGot' = [called |-> TRUE, index |-> index, len |-> len, err |-> FALSE]
            /\ UNCHANGED <<infoRequested, Bytes>>
       ELSE IF len # infoBlocks[index].size
       THEN /\ lastGot' = [called |-> TRUE, index |-> index, len |-> len, err |-> TRUE]
            /\ infoRequested' = infoRequested \ {index}
            /\ UNCHANGED <<Bytes, infoPanicked>>
       ELSE LET begin == index * blockSize
                end == begin + infoBlocks[index].size
            IN  /\ lastGot' = [called |-> TRUE, index |-> index, len |-> len, err |-> FALSE]
                /\ infoRequested' = infoRequested \ {index}
                /\ IF end > metadataSize
                   THEN infoPanicked' = TRUE /\ UNCHANGED Bytes
                   ELSE Bytes' = Bytes \cup {<<begin, end>>} /\ UNCHANGED infoPanicked
    /\ lastRequest' = NoRequestCall
    /\ UNCHANGED <<metadataSize, infoBlocks, nextBlockIndex, requestLog>>

\* GotBlock accepting a block without removing its index from d.requested
GotBlockKeepingRequested(index, len) ==
    /\ ~infoPanicked
    /\ IF index \notin infoRequested
       THEN /\ lastGot' = [called |-> TRUE, index |-> index, len |-> len, err |-> TRUE]
            /\ UNCHANGED <<Bytes, infoPanicked>>
       ELSE IF index \notin DOMAIN infoBlocks
       THEN /\ infoPanicked' = TRUE
            /\ lastGot' = [called |-> TRUE, index |-> index, len |-> len, err |-> FALSE]
            /\ UNCHANGED Bytes
       ELSE IF len # infoBlocks[index].size
       THEN /\ lastGot' = [called |-> TRUE, index |-> index, len |-> len, err |-> TRUE]
            /\ UNCHANGED <<Bytes, infoPanicked>>
       ELSE /\ lastGot' = [called |-> TRUE, index |-> index, len |-> len, err |-> FALSE]
            /\ Bytes' = Bytes \cup {<<index * blockSize, index * blockSize + infoBlocks[index].size>>}
            /\ UNCHANGED infoPanicked
    /\ lastRequest' = NoRequestCall
    /\ UNCHANGED <<metadataSize, infoBlocks, infoRequested, nextBlockIndex, requestLog>>

\* GotBlock: an index that is not requested, or data of the wrong length, is
\* an error and changes nothing; d.blocks[index] and d.Bytes[begin:end] panic
\* when out of range
GotBlock(index, len) ==
    /\ ~infoPanicked
    /\ IF index \notin infoRequested
       THEN /\ lastGot' = [called |-> TRUE, index |-> index, len |-> len, err |-> TRUE]
            /\ UNCHANGED <<infoRequested, Bytes, infoPanicked>>
       ELSE IF index \notin DOMAIN infoBlocks
       THEN /\ infoPanicked' = TRUE
            /\ lastGot' = [called |-> TRUE, index |-> index, len |-> len, err |-> FALSE]
            /\ UNCHANGED <<infoRequested, Bytes>>
       ELSE IF len # infoBlocks[index].size
       THEN /\ lastGot' = [called |-> TRUE, index |-> index, len |-> len, err |-> TRUE]
            /\ UNCHANGED <<infoRequested, Bytes, infoPanicked>>
       ELSE LET begin == index * blockSize
                end == begin + infoBlocks[index].size
            IN  /\ lastGot' = [called |-> TRUE, index |-> index, len |-> len, err |-> FALSE]
                /\ infoRequested' = infoRequested \ {index}
                /\ IF end > metadataSize
                   THEN infoPanicked' = TRUE /\ UNCHANGED Bytes
                   ELSE Bytes' = Bytes \cup {<<begin, end>>} /\ UNCHANGED infoPanicked
    /\ lastRequest' = NoRequestCall
    /\ UNCHANGED <<metadataSize, infoBlocks, nextBlockIndex, requestLog>>

\* Done
Done == nextBlockIndex = NumInfoBlocks /\ infoRequested = {}

-----------------------------------------------------------------------------
(* The torrent engine: the remote clients and the state of the event loop *)

\* remote clients that may connect or be dialled
NumClients == 3
\* pieces of the torrent
MaxPieces == 2

Clients == 1 .. NumClients

\* the last client runs with the peer-ID of client 1, client 2 sits behind
\* the IP address of client 1
IDOf(c) == IF c = NumClients THEN 1 ELSE c
IPOf(c) == IF c = 2 THEN 1 ELSE c

\* no entry in t.pieceDownloaders for the peer
NoPiece == -1

\* no writer result was handled by the step
NoWriteResult == [piece |-> NoPiece, failed |-> FALSE]

\* peer.New: the fields of a fresh peer.Peer
\* lastChoke is the last of Choke / Unchoke sent to the peer, "none" before
NewPeer == [AmChoking |-> TRUE, PeerInterested |-> FALSE, OptimisticUnchoked |-> FALSE,
            pieceC |-> "nil", down |-> 0, up |-> 0, lastChoke |-> "none"]

\* the engine state as one record, so that the procedures of run.go compose
T == [config |-> config, pieces |-> pieces, bitfield |-> bitfield,
      pieceWriting |-> pieceWriting, pieceDone |-> pieceDone,
      pieceMessages |-> pieceMessages, blockPieceMessages |-> blockPieceMessages,
      writers |-> writers, peers |-> peers, incomingPeers |-> incomingPeers,
      outgoingPeers |-> outgoingPeers, peerIDs |-> peerIDs,
      connectedPeerIPs |-> connectedPeerIPs,
      incomingHandshakers |-> incomingHandshakers,
      outgoingHandshakers |-> outgoingHandshakers, addrList |-> addrList,
      pieceDownloaders |-> pieceDownloaders, pe |-> pe, peerHas |-> peerHas,
      optimisticUnchokedPeers |-> optimisticUnchokedPeers, completed |-> completed,
      status |-> status, lastError |-> lastError,
      haveSent |-> [c \in Clients |-> {}],
      needMorePeers |-> needMorePeers, completeCClosed |-> completeCClosed,
      panicked |-> panicked, lastTick |-> "none", chokeRepeated |-> chokeRepeated,
      lastWriteResult |-> NoWriteResult, errC |-> errC, errCValues |-> errCValues,
      stoppedEventAnnouncer |-> stoppedEventAnnouncer,
      announcersStoppedC |-> announcersStoppedC, sendOnNil |-> sendOnNil]

Commit(t) ==
    /\ config' = t.config
    /\ pieces' = t.pieces
    /\ bitfield' = t.bitfield
    /\ pieceWriting' = t.pieceWriting
    /\ pieceDone' = t.pieceDone
    /\ pieceMessages' = t.pieceMessages
    /\ blockPieceMessages' = t.blockPieceMessages
    /\ writers' = t.writers
    /\ peers' = t.peers
    /\ incomingPeers' = t.incomingPeers
    /\ outgoingPeers' = t.outgoingPeers
    /\ peerIDs' = t.peerIDs
    /\ connectedPeerIPs' = t.connectedPeerIPs
    /\ incomingHandshakers' = t.incomingHandshakers
    /\ outgoingHandshakers' = t.outgoingHandshakers
    /\ addrList' = t.addrList
    /\ pieceDownloaders' = t.pieceDownloaders
    /\ pe' = t.pe
    /\ peerHas' = t.peerHas
    /\ optimisticUnchokedPeers' = t.optimisticUnchokedPeers
    /\ completed' = t.completed
    /\ status' = t.status
    /\ lastError' = t.lastError
    /\ haveSent' = t.haveSent
    /\ needMorePeers' = t.needMorePeers
    /\ completeCClosed' = t.completeCClosed
    /\ panicked' = t.panicked
    /\ lastTick' = t.lastTick
    /\ chokeRepeated' = t.chokeRepeated
    /\ lastWriteResult' = t.lastWriteResult
    /\ errC' = t.errC
    /\ errCValues' = t.errCValues
    /\ stoppedEventAnnouncer' = t.stoppedEventAnnouncer
    /\ announcersStoppedC' = t.announcersStoppedC
    /\ sendOnNil' = t.sendOnNil

\* the torrent after construction and start, with the bitfield the verifier found
NewTorrent(cfg, n, have) ==
    /\ config = cfg
    /\ pieces = 0 .. n - 1
    /\ bitfield = have
    /\ pieceWriting = {}
    /\ pieceDone = have
    /\ pieceMessages = "chan"
    /\ blockPieceMessages = "nil"
    /\ writers = {}
    /\ peers = {}
    /\ incomingPeers = {}
    /\ outgoingPeers = {}
    /\ peerIDs = {}
    /\ connectedPeerIPs = {}
    /\ incomingHandshakers = {}
    /\ outgoingHandshakers = {}
    /\ addrList = {}
    /\ pieceDownloaders = [c \in Clients |-> NoPiece]
    /\ pe = [c \in Clients |-> NewPeer]
    /\ peerHas = [c \in Clients |-> {}]
    /\ optimisticUnchokedPeers = <<>>
    /\ completed = (n > 0 /\ have = 0 .. n - 1)
    /\ status = "Running"
    /\ lastError = "nil"
    /\ haveSent = [c \in Clients |-> {}]
    /\ needMorePeers = FALSE
    /\ completeCClosed = IF n > 0 /\ have = 0 .. n - 1 THEN 1 ELSE 0
    /\ panicked = FALSE
    /\ lastTick = "none"
    /\ chokeRepeated = FALSE
    /\ lastWriteResult = NoWriteResult
    /\ errC = "chan"
    /\ errCValues = <<>>
    /\ stoppedEventAnnouncer = "nil"
    /\ announcersStoppedC = 0
    /\ sendOnNil = FALSE

-----------------------------------------------------------------------------
(* Procedures of run.go, as functions of the engine state *)

MinOf(S) == CHOOSE x \in S : \A y \in S : x <= y

setNeedMorePeers(t, val) == [t EXCEPT !.needMorePeers = val]

\* the dial loop without the look-up of the address in connectedPeerIPs
RECURSIVE dialLoopAnyIP(_)
dialLoopAnyIP(t) ==
    IF Cardinality(t.outgoingPeers) + Cardinality(t.outgoingHandshakers) < t.config.MaxPeerDial
    THEN IF t.addrList = {}
         THEN setNeedMorePeers(t, TRUE)
         ELSE LET addr == MinOf(t.addrList)
              IN  dialLoopAnyIP([t EXCEPT
                      !.addrList = @ \ {addr},
                      !.outgoingHandshakers = @ \cup {addr},
                      !.connectedPeerIPs = @ \cup {IPOf(addr)}])
    ELSE t

\* dialAddresses: addrList.Pop() hands out the lowest address first
RECURSIVE dialLoop(_)
dialLoop(t) ==
    IF Cardinality(t.outgoingPeers) + Cardinality(t.outgoingHandshakers) < t.config.MaxPeerDial
    THEN IF t.addrList = {}
         THEN setNeedMorePeers(t, TRUE)
         ELSE LET addr == MinOf(t.addrList)
                  t1 == [t EXCEPT !.addrList = @ \ {addr}]
              IN  IF IPOf(addr) \in t.connectedPeerIPs
                  THEN dialLoop(t1)
                  ELSE dialLoop([t1 EXCEPT
                           !.outgoingHandshakers = @ \cup {addr},
                           !.connectedPeerIPs = @ \cup {IPOf(addr)}])
    ELSE t

dialAddresses(t) == IF t.completed THEN t ELSE dialLoop(t)

closePieceDownloader(t, c) == [t EXCEPT !.pieceDownloaders[c] = NoPiece]

\* chokePeer and unchokePeer on a peer.Peer value: the value afterwards,
\* whether a message is sent, whether that message comes out of turn
chokeValue(r) ==
    IF ~r.AmChoking THEN [r EXCEPT !.AmChoking = TRUE, !.lastChoke = "Choke"] ELSE r
chokeOutOfTurn(r) == ~r.AmChoking /\ r.lastChoke # "Unchoke"

unchokeValue(r) ==
    IF r.AmChoking THEN [r EXCEPT !.AmChoking = FALSE, !.lastChoke = "Unchoke"] ELSE r
unchokeOutOfTurn(r) == r.AmChoking /\ r.lastChoke = "Unchoke"

\* chokePeer sending Choke whatever AmChoking is
chokePeerUnguarded(t, c) ==
    [t EXCEPT !.pe[c] = [@ EXCEPT !.AmChoking = TRUE, !.lastChoke = "Choke"],
              !.chokeRepeated = @ \/ t.pe[c].lastChoke # "Unchoke"]

chokePeer(t, c) ==
    [t EXCEPT !.pe[c] = chokeValue(@),
              !.chokeRepeated = @ \/ chokeOutOfTurn(t.pe[c])]

unchokePeer(t, c) ==
    [t EXCEPT !.pe[c] = unchokeValue(@),
              !.chokeRepeated = @ \/ unchokeOutOfTurn(t.pe[c])]

\* the entries of optimisticUnchokedPeers are pointers: closing the peer
\* leaves them in the list, pointing at the closed peer.Peer value
MarkClosed(list, c, r) ==
    [k \in 1 .. Len(list) |->
        IF list[k].peer = c /\ ~list[k].closed
        THEN [peer |-> c, closed |-> TRUE, value |-> r]
        ELSE list[k]]

\* closePeer leaving the peer-ID behind
closePeerKeepingID(t, c) ==
    LET t1 == closePieceDownloader(t, c)
        t2 == [t1 EXCEPT
                 !.peers = @ \ {c},
                 !.incomingPeers = @ \ {c},
                 !.outgoingPeers = @ \ {c},
                 !.connectedPeerIPs = @ \ {IPOf(c)},
                 !.peerHas[c] = {},
                 !.pe[c] = NewPeer,
                 !.optimisticUnchokedPeers = MarkClosed(@, c, t.pe[c])]
    IN  dialAddresses(t2)

closePeer(t, c) ==
    LET t1 == closePieceDownloader(t, c)
        t2 == [t1 EXCEPT
                 !.peers = @ \ {c},
                 !.incomingPeers = @ \ {c},
                 !.outgoingPeers = @ \ {c},
                 !.peerIDs = @ \ {IDOf(c)},
                 !.connectedPeerIPs = @ \ {IPOf(c)},
                 !.peerHas[c] = {},
                 !.pe[c] = NewPeer,
                 !.optimisticUnchokedPeers = MarkClosed(@, c, t.pe[c])]
    IN  dialAddresses(t2)

startPeer(t, c, dir) ==
    IF IDOf(c) \in t.peerIDs
    THEN dialAddresses(t)
    ELSE LET t1 == [t EXCEPT
                      !.peerIDs = @ \cup {IDOf(c)},
                      !.peers = @ \cup {c},
                      !.incomingPeers = IF dir = "in" THEN @ \cup {c} ELSE @,
                      !.outgoingPeers = IF dir = "out" THEN @ \cup {c} ELSE @,
                      !.pe[c] = [NewPeer EXCEPT !.pieceC = t.pieceMessages]]
         IN  IF Cardinality(t1.peers) <= 4 THEN unchokePeer(t1, c) ELSE t1

RECURSIVE closePeers(_, _)
closePeers(t, S) ==
    IF S = {} THEN t
    ELSE LET c == MinOf(S) IN closePeers(closePeer(t, c), S \ {c})

\* checkCompletion leaving the outgoing handshakes running
checkCompletionKeepingHandshakers(t) ==
    IF t.completed THEN t
    ELSE IF t.bitfield # t.pieces THEN t
    ELSE LET t1 == [t EXCEPT !.completed = TRUE,
                             !.completeCClosed = @ + 1]
             t2 == closePeers(t1, {c \in t1.peers : ~t1.pe[c].PeerInterested})
         IN  [t2 EXCEPT !.addrList = {},
                        !.pieceDownloaders = [c \in Clients |-> NoPiece]]

checkCompletion(t) ==
    IF t.completed THEN t
    ELSE IF t.bitfield # t.pieces THEN t
    ELSE LET t1 == [t EXCEPT !.completed = TRUE,
                             !.completeCClosed = @ + 1,
                             !.outgoingHandshakers = {}]
             t2 == closePeers(t1, {c \in t1.peers : ~t1.pe[c].PeerInterested})
         IN  [t2 EXCEPT !.addrList = {},
                        !.pieceDownloaders = [c \in Clients |-> NoPiece]]

\* torrent.stop: the peers and handshakers are closed and the torrent leaves Running
\* the stopped-event announcer created last reports on announcersStoppedC
stop(t, err) ==
    IF t.status \in {"Stopping", "Stopped"} THEN t
    ELSE
    [t EXCEPT !.status = "Stopping", !.lastError = err,
              !.stoppedEventAnnouncer = "set",
              !.peers = {}, !.incomingPeers = {}, !.outgoingPeers = {},
              !.peerIDs = {}, !.connectedPeerIPs = {},
              !.incomingHandshakers = {}, !.outgoingHandshakers = {},
              !.pieceDownloaders = [c \in Clients |-> NoPiece],
              !.pe = [c \in Clients |-> NewPeer],
              !.peerHas = [c \in Clients |-> {}],
              !.optimisticUnchokedPeers = <<>>]

-----------------------------------------------------------------------------
(* The cases of the select in torrent.run *)

\* largest value of a choke-period byte counter
MaxPeriodBytes == 1

Running == status = "Running" /\ ~panicked

\* the incomingConnC case admitting a connection whatever the number of
\* accepted connections
incomingConnCaseNoLimit(t, c) ==
    IF IPOf(c) \in t.config.blocklist
    THEN t
    ELSE IF IPOf(c) \in t.connectedPeerIPs
    THEN t
    ELSE [t EXCEPT !.incomingHandshakers = @ \cup {c},
                   !.connectedPeerIPs = @ \cup {IPOf(c)}]

\* case conn := <-t.incomingConnC, the connection coming from client c
incomingConnCase(t, c) ==
    IF Cardinality(t.incomingHandshakers) + Cardinality(t.incomingPeers)
          >= t.config.MaxPeerAccept
    THEN t
    ELSE IF IPOf(c) \in t.config.blocklist
    THEN t
    ELSE IF IPOf(c) \in t.connectedPeerIPs
    THEN t
    ELSE [t EXCEPT !.incomingHandshakers = @ \cup {c},
                   !.connectedPeerIPs = @ \cup {IPOf(c)}]

\* case ih := <-t.incomingHandshakerResultC
incomingHandshakerResultCase(t, c, ok) ==
    LET t1 == [t EXCEPT !.incomingHandshakers = @ \ {c}]
    IN  IF ~ok
        THEN [t1 EXCEPT !.connectedPeerIPs = @ \ {IPOf(c)}]
        ELSE startPeer(t1, c, "in")

\* case oh := <-t.outgoingHandshakerResultC
outgoingHandshakerResultCase(t, c, ok) ==
    LET t1 == [t EXCEPT !.outgoingHandshakers = @ \ {c}]
    IN  IF ~ok
        THEN dialAddresses([t1 EXCEPT !.connectedPeerIPs = @ \ {IPOf(c)}])
        ELSE startPeer(t1, c, "out")

\* handleNewPeers, reached from addrsFromTrackers, addPeersCommandC and dhtPeersC
handleNewPeers(t, addrs) ==
    LET t1 == setNeedMorePeers(t, FALSE)
    IN  IF t1.status \in {"Stopped", "Stopping"} THEN t1
        ELSE IF ~t1.completed
        THEN dialAddresses([t1 EXCEPT !.addrList = @ \cup addrs])
        ELSE t1

\* the writer-result case announcing the piece to every peer
pieceWriterResultCaseHaveToAll(t, i, failed) ==
    LET t1 == [t EXCEPT !.pieceWriting = @ \ {i},
                        !.pieceMessages = t.blockPieceMessages,
                        !.blockPieceMessages = "nil",
                        !.writers = @ \ {i}]
    IN  IF failed
        THEN stop(t1, "write error")
        ELSE IF i \in t1.bitfield
        THEN [t1 EXCEPT !.pieceDone = @ \cup {i}, !.panicked = TRUE]
        ELSE LET t2 == [t1 EXCEPT
                          !.pieceDone = @ \cup {i},
                          !.bitfield = @ \cup {i},
                          !.haveSent = [c \in Clients |->
                              IF c \in t1.peers THEN {i} ELSE {}]]
             IN  checkCompletion(t2)

\* the writer-result case leaving the piece channel blocked
pieceWriterResultCaseKeepingBlocked(t, i, failed) ==
    LET t1 == [t EXCEPT !.pieceWriting = @ \ {i},
                        !.writers = @ \ {i}]
    IN  IF failed
        THEN stop(t1, "write error")
        ELSE IF i \in t1.bitfield
        THEN [t1 EXCEPT !.pieceDone = @ \cup {i}, !.panicked = TRUE]
        ELSE LET t2 == [t1 EXCEPT
                          !.pieceDone = @ \cup {i},
                          !.bitfield = @ \cup {i},
                          !.haveSent = [c \in Clients |->
                              IF c \in t1.peers /\ i \notin t1.peerHas[c]
                              THEN {i} ELSE {}]]
             IN  checkCompletion(t2)

\* the writer-result case forgetting the verified pieces after a write error
pieceWriterResultCaseResetOnError(t, i, failed) ==
    LET t1 == [t EXCEPT !.pieceWriting = @ \ {i},
                        !.pieceMessages = t.blockPieceMessages,
                        !.blockPieceMessages = "nil",
                        !.writers = @ \ {i}]
    IN  IF failed
        THEN [stop(t1, "write error") EXCEPT !.bitfield = {}]
        ELSE IF i \in t1.bitfield
        THEN [t1 EXCEPT !.pieceDone = @ \cup {i}, !.panicked = TRUE]
        ELSE LET t2 == [t1 EXCEPT
                          !.pieceDone = @ \cup {i},
                          !.bitfield = @ \cup {i},
                          !.haveSent = [c \in Clients |->
                              IF c \in t1.peers /\ i \notin t1.peerHas[c]
                              THEN {i} ELSE {}]]
             IN  checkCompletion(t2)

\* case pw := <-t.pieceWriterResultC, for the writer of piece i
\* the writer-result case looking at the error after the piece was marked
pieceWriterResultCaseErrorLast(t, i, failed) ==
    LET t1 == [t EXCEPT !.pieceWriting = @ \ {i},
                        !.pieceMessages = t.blockPieceMessages,
                        !.blockPieceMessages = "nil",
                        !.writers = @ \ {i},
                        !.lastWriteResult = [piece |-> i, failed |-> failed]]
    IN  IF i \in t1.bitfield
        THEN [t1 EXCEPT !.pieceDone = @ \cup {i}, !.panicked = TRUE]
        ELSE LET t2 == [t1 EXCEPT
                          !.pieceDone = @ \cup {i},
                          !.bitfield = @ \cup {i},
                          !.haveSent = [c \in Clients |->
                              IF c \in t1.peers /\ i \notin t1.peerHas[c]
                              THEN {i} ELSE {}]]
             IN  IF failed THEN stop(t2, "write error") ELSE checkCompletion(t2)

pieceWriterResultCase(t, i, failed) ==
    LET t1 == [t EXCEPT !.pieceWriting = @ \ {i},
                        !.pieceMessages = t.blockPieceMessages,
                        !.blockPieceMessages = "nil",
                        !.writers = @ \ {i},
                        !.lastWriteResult = [piece |-> i, failed |-> failed]]
    IN  IF failed
        THEN stop(t1, "write error")
        ELSE IF i \in t1.bitfield
        THEN [t1 EXCEPT !.pieceDone = @ \cup {i}, !.panicked = TRUE]
        ELSE LET t2 == [t1 EXCEPT
                          !.pieceDone = @ \cup {i},
                          !.bitfield = @ \cup {i},
                          !.haveSent = [c \in Clients |->
                              IF c \in t1.peers /\ i \notin t1.peerHas[c]
                              THEN {i} ELSE {}]]
             IN  checkCompletion(t2)

\* torrent.start: a stopped torrent gets a fresh error channel and runs again
start(t) ==
    IF t.status # "Stopped" THEN t
    ELSE [t EXCEPT !.status = "Running", !.errC = "chan", !.errCValues = <<>>]

\* the announcersStoppedC case keeping the error channel
announcersStoppedCaseKeepingErrC(t) ==
    LET t1 == [t EXCEPT !.stoppedEventAnnouncer = "nil",
                        !.announcersStoppedC = @ - 1]
    IN  IF t1.errC = "nil"
        THEN [t1 EXCEPT !.sendOnNil = TRUE]
        ELSE [t1 EXCEPT !.errCValues = Append(@, t1.lastError),
                        !.status = "Stopped"]

\* case <-t.announcersStoppedC: a send on a nil channel never returns;
\* status() reports Stopped from here on
announcersStoppedCase(t) ==
    LET t1 == [t EXCEPT !.stoppedEventAnnouncer = "nil",
                        !.announcersStoppedC = @ - 1]
    IN  IF t1.errC = "nil"
        THEN [t1 EXCEPT !.sendOnNil = TRUE]
        ELSE [t1 EXCEPT !.errCValues = Append(@, t1.lastError),
                        !.errC = "nil",
                        !.status = "Stopped"]

\* case <-t.resumeWriteTimerC with resume.WriteBitfield failing
writeBitfieldFailed(t) == stop(t, "resume error")

\* tickUnchoke; top is the head of the sorted candidate list that gets unchoked
UnchokeCandidates(t) ==
    {c \in t.peers : t.pe[c].PeerInterested /\ ~t.pe[c].OptimisticUnchoked}

\* the ranking by downloaded bytes whether the torrent is complete or not
ChokeKeyDownloaded(t, c) == t.pe[c].down

ChokeKey(t, c) == IF t.completed THEN t.pe[c].up ELSE t.pe[c].down

RECURSIVE tickUnchokeLoop(_, _, _)
tickUnchokeLoop(t, rest, top) ==
    IF rest = {} THEN t
    ELSE LET c == MinOf(rest)
             t1 == IF c \in top
                   THEN [unchokePeer(t, c) EXCEPT !.pe[c].OptimisticUnchoked = FALSE]
                   ELSE chokePeer(t, c)
         IN  tickUnchokeLoop(t1, rest \ {c}, top)

tickUnchoke(t, top) ==
    LET t1 == [t EXCEPT !.pe = [c \in Clients |->
                                   IF c \in t.peers
                                   THEN [t.pe[c] EXCEPT !.down = 0, !.up = 0]
                                   ELSE t.pe[c]]]
    IN  [tickUnchokeLoop(t1, UnchokeCandidates(t), top) EXCEPT !.lastTick = "unchoke"]

\* the heads sort.Slice may leave in front: as many as UnchokedPeers allows,
\* none of them ranked below a candidate left out
UnchokeTops(t) ==
    LET cands == UnchokeCandidates(t)
        k == IF Cardinality(cands) < t.config.UnchokedPeers
             THEN Cardinality(cands) ELSE t.config.UnchokedPeers
    IN  {top \in SUBSET cands :
            /\ Cardinality(top) = k
            /\ \A a \in top, b \in cands \ top : ChokeKey(t, a) >= ChokeKey(t, b)}

\* tickOptimisticUnchoke; picks are the peers rand.Intn selects, in order
OptimisticCandidates(t) ==
    {c \in t.peers : /\ t.pe[c].PeerInterested
                     /\ ~t.pe[c].OptimisticUnchoked
                     /\ t.pe[c].AmChoking}

RECURSIVE chokeOptimistic(_, _)
chokeOptimistic(t, list) ==
    IF list = <<>> THEN t
    ELSE LET e == Head(list)
             t1 == IF e.closed
                   THEN \* the closed peer.Peer value is still choked through the pointer
                        IF e.value.OptimisticUnchoked
                        THEN [t EXCEPT !.chokeRepeated = @ \/ chokeOutOfTurn(e.value)]
                        ELSE t
                   ELSE IF t.pe[e.peer].OptimisticUnchoked
                   THEN chokePeer(t, e.peer)
                   ELSE t
         IN  chokeOptimistic(t1, Tail(list))

RECURSIVE unchokeOptimistic(_, _)
unchokeOptimistic(t, picks) ==
    IF picks = <<>> THEN t
    ELSE LET c == Head(picks)
             t1 == unchokePeer([t EXCEPT !.pe[c].OptimisticUnchoked = TRUE], c)
         IN  unchokeOptimistic(
                 [t1 EXCEPT !.optimisticUnchokedPeers =
                                Append(@, [peer |-> c, closed |-> FALSE, value |-> NewPeer])],
                 Tail(picks))

tickOptimisticUnchoke(t, picks) ==
    LET t1 == chokeOptimistic(t, t.optimisticUnchokedPeers)
        t2 == [t1 EXCEPT !.optimisticUnchokedPeers = <<>>]
    IN  [unchokeOptimistic(t2, picks) EXCEPT !.lastTick = "optimistic"]

OptimisticPicks(t) ==
    LET cands == OptimisticCandidates(t)
    IN  IF cands = {} THEN {<<>>}
        ELSE [1 .. t.config.OptimisticUnchokedPeers -> cands]

-----------------------------------------------------------------------------
(* Handlers of the loop that live outside run.go *)

\* startPieceDownloaders: a free peer is given a piece it has and we lack;
\* a piece gets a second downloader only in endgame
Missing(t) == t.pieces \ (t.bitfield \cup t.pieceWriting)
Downloading(t) == {t.pieceDownloaders[c] : c \in Clients} \ {NoPiece}

startPieceDownloader(t, c, i) == [t EXCEPT !.pieceDownloaders[c] = i]

CanStartPieceDownloader(t, c, i) ==
    /\ ~t.completed
    /\ c \in t.peers
    /\ t.pieceDownloaders[c] = NoPiece
    /\ i \in Missing(t)
    /\ i \in t.peerHas[c]
    /\ (i \in Downloading(t) => Missing(t) \subseteq Downloading(t))

\* handlePieceMessage leaving the other downloaders of the piece running
handlePieceMessageKeepingOthers(t, c, hashOK) ==
    LET i == t.pieceDownloaders[c]
    IN  IF ~hashOK
        THEN closePeer(t, c)
        ELSE [t EXCEPT
                !.pieceDownloaders[c] = NoPiece,
                !.pieceWriting = @ \cup {i},
                !.writers = @ \cup {i},
                !.blockPieceMessages = t.pieceMessages,
                !.pieceMessages = "nil"]

\* handlePieceMessage for the block that completes the piece of c's
\* downloader: hash check, then the piece writer
handlePieceMessage(t, c, hashOK) ==
    LET i == t.pieceDownloaders[c]
    IN  IF ~hashOK
        THEN closePeer(t, c)
        ELSE [t EXCEPT
                !.pieceDownloaders = [d \in Clients |->
                    IF t.pieceDownloaders[d] = i THEN NoPiece ELSE t.pieceDownloaders[d]],
                !.pieceWriting = @ \cup {i},
                !.writers = @ \cup {i},
                !.blockPieceMessages = t.pieceMessages,
                !.pieceMessages = "nil"]

\* handlePeerMessage: Have / Bitfield, Interested / NotInterested
handleHave(t, c, i) == [t EXCEPT !.peerHas[c] = @ \cup {i}]
handleInterested(t, c, v) == [t EXCEPT !.pe[c].PeerInterested = v]

\* bytes moved to or from a peer inside the current choke period
countBytes(t, c, dir) ==
    IF dir = "down" THEN [t EXCEPT !.pe[c].down = @ + 1]
    ELSE [t EXCEPT !.pe[c].up = @ + 1]

-----------------------------------------------------------------------------
(* The engine loop: one step per event *)

IncomingConn ==
    /\ Running
    /\ \E c \in Clients :
          /\ c \notin peers \cup incomingHandshakers \cup outgoingHandshakers
          /\ Commit(incomingConnCase(T, c))
    /\ OnlyEngine

IncomingHandshakerResult ==
    /\ Running
    /\ \E c \in incomingHandshakers, ok \in BOOLEAN :
          Commit(incomingHandshakerResultCase(T, c, ok))
    /\ OnlyEngine

OutgoingHandshakerResult ==
    /\ Running
    /\ \E c \in outgoingHandshakers, ok \in BOOLEAN :
          Commit(outgoingHandshakerResultCase(T, c, ok))
    /\ OnlyEngine

NewPeers ==
    /\ Running
    /\ \E addrs \in SUBSET Clients :
          /\ addrs # {}
          /\ addrs \cap (peers \cup incomingHandshakers \cup outgoingHandshakers) = {}
          /\ Commit(handleNewPeers(T, addrs))
    /\ OnlyEngine

PeerDisconnected ==
    /\ Running
    /\ \E c \in peers : Commit(closePeer(T, c))
    /\ OnlyEngine

PeerHave ==
    /\ Running
    /\ \E c \in peers, i \in pieces :
          /\ i \notin peerHas[c]
          /\ Commit(handleHave(T, c, i))
    /\ OnlyEngine

PeerInterest ==
    /\ Running
    /\ \E c \in peers : Commit(handleInterested(T, c, ~pe[c].PeerInterested))
    /\ OnlyEngine

PeerBytes ==
    /\ Running
    /\ \E c \in peers, dir \in {"down", "up"} :
          /\ pe[c][dir] < MaxPeriodBytes
          /\ Commit(countBytes(T, c, dir))
    /\ OnlyEngine

StartPieceDownloader ==
    /\ Running
    /\ \E c \in peers, i \in pieces :
          /\ CanStartPieceDownloader(T, c, i)
          /\ Commit(startPieceDownloader(T, c, i))
    /\ OnlyEngine

\* case pm := <-t.pieceMessages: ready only while the loop's channel is not
\* nil and the sending peer was handed a channel
PieceMessage ==
    /\ Running
    /\ pieceMessages = "chan"
    /\ \E c \in peers, hashOK \in BOOLEAN :
          /\ pe[c].pieceC = "chan"
          /\ pieceDownloaders[c] # NoPiece
          /\ Commit(handlePieceMessage(T, c, hashOK))
    /\ OnlyEngine

PieceWriterResult ==
    /\ Running
    /\ \E i \in writers, failed \in BOOLEAN :
          Commit(pieceWriterResultCase(T, i, failed))
    /\ OnlyEngine

UnchokeTick ==
    /\ Running
    /\ \E top \in UnchokeTops(T) : Commit(tickUnchoke(T, top))
    /\ OnlyEngine

OptimisticUnchokeTick ==
    /\ Running
    /\ \E picks \in OptimisticPicks(T) : Commit(tickOptimisticUnchoke(T, picks))
    /\ OnlyEngine

\* the loop takes commands as long as it has not panicked and is not blocked
LoopAlive == ~panicked /\ ~sendOnNil

StartCommand ==
    /\ LoopAlive
    /\ Commit(start(T))
    /\ OnlyEngine

StopCommand ==
    /\ LoopAlive
    /\ Commit(stop(T, "nil"))
    /\ OnlyEngine

WriteBitfieldFailed ==
    /\ Running
    /\ Commit(writeBitfieldFailed(T))
    /\ OnlyEngine

\* the stopped-event announcer finishes and signals the loop, once
AnnouncerReports ==
    /\ stoppedEventAnnouncer = "set"
    /\ announcersStoppedC = 0
    /\ Commit([T EXCEPT !.announcersStoppedC = 1])
    /\ OnlyEngine

AnnouncersStopped ==
    /\ LoopAlive
    /\ announcersStoppedC > 0
    /\ Commit(announcersStoppedCase(T))
    /\ OnlyEngine

\* connections: accepting, dialling, handshakes, disconnects
NextConn ==
    \/ IncomingConn
    \/ IncomingHandshakerResult
    \/ OutgoingHandshakerResult
    \/ NewPeers
    \/ PeerDisconnected

\* accepted peers and the piece pipeline: downloaders, hash check, writer
NextPieces ==
    \/ IncomingConn
    \/ IncomingHandshakerResult
    \/ PeerDisconnected
    \/ PeerHave
    \/ PeerInterest
    \/ StartPieceDownloader
    \/ PieceMessage
    \/ PieceWriterResult

\* accepted peers and the choke scheduler
NextChoke ==
    \/ IncomingConn
    \/ IncomingHandshakerResult
    \/ PeerDisconnected
    \/ PeerInterest
    \/ PeerBytes
    \/ UnchokeTick
    \/ OptimisticUnchokeTick

\* the choke scheduler over peers that stay connected
NextUnchoke ==
    \/ IncomingConn
    \/ IncomingHandshakerResult
    \/ PeerInterest
    \/ PeerBytes
    \/ UnchokeTick
    \/ OptimisticUnchokeTick

\* largest UnchokedPeers of a configuration
MaxUnchokedPeers == 2
\* largest MaxPeerAccept and MaxPeerDial of a configuration
MaxPeers == 2

Configs ==
    [UnchokedPeers : 1 .. MaxUnchokedPeers,
     OptimisticUnchokedPeers : {1},
     MaxPeerAccept : 1 .. MaxPeers,
     MaxPeerDial : 1 .. MaxPeers,
     blocklist : {{}, {1}}]

\* the components a specification does not follow stay as constructed
OthersAtRest == NewConn /\ NewSession(0) /\ NewInfoDownloader(0)

\* no PieceDownloader is followed while the engine is
NoPD ==
    /\ pieceLength = 0
    /\ blocks = <<>>
    /\ limiter = LimiterNil
    /\ pdState = "returned"
    /\ DoneC = <<>>
    /\ ErrC = <<>>
    /\ peerClosed = FALSE
    /\ outstanding = <<>>
    /\ peerChoking = FALSE
    /\ chokeSeen = FALSE
    /\ rejected = {}
    /\ badReject = FALSE
    /\ nRejects = 0
    /\ nChokes = 0
    /\ allowedFast = FALSE

\* every accept and dial limit, with and without a blocked address
InitConn ==
    /\ NoPD
    /\ OthersAtRest
    /\ \E cfg \in Configs :
          /\ cfg.UnchokedPeers = 1
          /\ NewTorrent(cfg, 1, {})

\* every torrent of up to MaxPieces pieces that still misses one, two accept slots
InitPieces ==
    /\ NoPD
    /\ OthersAtRest
    /\ \E cfg \in Configs, n \in 1 .. MaxPieces :
          \E have \in SUBSET (0 .. n - 1) :
              /\ cfg.UnchokedPeers = 1
              /\ cfg.MaxPeerAccept = 2
              /\ cfg.MaxPeerDial = 2
              /\ cfg.blocklist = {}
              /\ have # 0 .. n - 1
              /\ NewTorrent(cfg, n, have)

\* every number of regular unchoke slots, two accept slots
InitChoke ==
    /\ NoPD
    /\ OthersAtRest
    /\ \E cfg \in Configs :
          /\ cfg.MaxPeerAccept = 2
          /\ cfg.MaxPeerDial = 2
          /\ cfg.blocklist = {}
          /\ NewTorrent(cfg, 1, {})

\* a torrent of one missing piece, every dial limit, one accept slot
InitCompletion ==
    /\ NoPD
    /\ OthersAtRest
    /\ \E cfg \in Configs :
          /\ cfg.UnchokedPeers = 1
          /\ cfg.MaxPeerAccept = 1
          /\ cfg.blocklist = {}
          /\ NewTorrent(cfg, 1, {})

\* dialled and accepted peers together with the piece pipeline
NextCompletion ==
    \/ NextConn
    \/ PeerHave
    \/ PeerInterest
    \/ StartPieceDownloader
    \/ PieceMessage
    \/ PieceWriterResult

\* a running torrent, every accept limit
InitLifecycle ==
    /\ NoPD
    /\ OthersAtRest
    /\ \E cfg \in Configs :
          /\ cfg.UnchokedPeers = 1
          /\ cfg.MaxPeerDial = 1
          /\ cfg.blocklist = {}
          /\ NewTorrent(cfg, 1, {})

\* start and stop commands, fatal errors and the stopped-event announcer,
\* with peers being accepted
NextLifecycle ==
    \/ StartCommand
    \/ StopCommand
    \/ WriteBitfieldFailed
    \/ AnnouncerReports
    \/ AnnouncersStopped
    \/ IncomingConn
    \/ IncomingHandshakerResult
    \/ PeerDisconnected

\* a leeching and a seeding torrent, every number of regular unchoke slots,
\* two accept slots
InitUnchoke ==
    /\ NoPD
    /\ OthersAtRest
    /\ \E cfg \in Configs, have \in {{}, {0}} :
          /\ cfg.MaxPeerAccept = 2
          /\ cfg.MaxPeerDial = 2
          /\ cfg.blocklist = {}
          /\ NewTorrent(cfg, 1, have)

SpecConn == InitConn /\ [][NextConn]_vars
SpecUnchoke == InitUnchoke /\ [][NextUnchoke]_vars
SpecLifecycle == InitLifecycle /\ [][NextLifecycle]_vars
SpecCompletion == InitCompletion /\ [][NextCompletion]_vars
SpecPieces == InitPieces /\ [][NextPieces]_vars
SpecChoke == InitChoke /\ [][NextChoke]_vars

-----------------------------------------------------------------------------
(* The PieceDownloader specifications *)

\* piece lengths giving 1 .. MaxBlocks blocks, with and without a short last block
PieceLengths ==
    {k * blockSize : k \in 1 .. MaxBlocks} \cup
    {(k - 1) * blockSize + 1 : k \in 1 .. MaxBlocks}

\* no torrent is followed while one downloader is
NoTorrent ==
    NewTorrent([UnchokedPeers |-> 0, OptimisticUnchokedPeers |-> 0, MaxPeerAccept |-> 0,
                MaxPeerDial |-> 0, blocklist |-> {}], 0, {})

\* a peer without the Fast extension
InitPD == NoTorrent /\ OthersAtRest /\ allowedFast = FALSE /\ \E len \in PieceLengths : New(len)

\* a peer with the Fast extension, the piece in its AllowedFast set
InitPDFast == NoTorrent /\ OthersAtRest /\ allowedFast = TRUE /\ \E len \in PieceLengths : New(len)

\* a piece one block longer than the request pipeline
InitPDPipeline == NoTorrent /\ OthersAtRest /\ allowedFast = FALSE /\ New(maxQueuedBlocks * blockSize + 1)


RequestSent == LimiterCase(TRUE) /\ OnlyPD
RequestFailed == LimiterCase(FALSE) /\ OnlyPD
PeerSendsPiece == (\E i \in BlockIdx : PieceCase(i)) /\ OnlyPD
PeerSendsReject == (\E i \in BlockIdx : RejectCase(i)) /\ OnlyPD
PeerChokes == ChokeCase /\ OnlyPD
PeerUnchokes == UnchokeCase /\ OnlyPD
Stopped == StopCase /\ OnlyPD

NextPD ==
    \/ RequestSent
    \/ RequestFailed
    \/ PeerSendsPiece
    \/ PeerSendsReject
    \/ PeerChokes
    \/ PeerUnchokes
    \/ Stopped

SpecPD == InitPD /\ [][NextPD]_vars
SpecPDFast == InitPDFast /\ [][NextPD]_vars

\* Run is a goroutine of its own: whenever the limiter case of its select
\* stays ready it is eventually taken.  Nothing is assumed of the peer.
FairSpecPD == SpecPD /\ WF_vars(RequestSent \/ RequestFailed)

\* A peer that answers the Requests it has received, lowest block first, and
\* sends nothing else but Choke and Unchoke
PeerAnswersInOrder ==
    /\ \E i \in BlockIdx :
          /\ outstanding[i] > 0
          /\ \A j \in BlockIdx : j < i => outstanding[j] = 0
          /\ PieceCase(i)
    /\ OnlyPD

NextPDPipeline ==
    \/ RequestSent
    \/ PeerAnswersInOrder
    \/ PeerChokes
    \/ PeerUnchokes
    \/ Stopped

SpecPDPipeline == InitPDPipeline /\ [][NextPDPipeline]_vars

-----------------------------------------------------------------------------
(* Properties of the PieceDownloader *)

Unreceived == {i \in BlockIdx : blocks[i].data = NoData}
InFlight == {i \in BlockIdx : blocks[i].requested /\ blocks[i].data = NoData}

\* C5: DoneC carries at most one value over the whole run, it carries one
\* exactly when every block has received its data, and the buffer emitted has
\* the declared length of the piece.
C5_DoneOnceWithPieceLength ==
    /\ Len(DoneC) <= 1
    /\ (Unreceived = {}) <=> (Len(DoneC) = 1)
    /\ \A k \in 1 .. Len(DoneC) : DoneC[k] = pieceLength

C5_Witness ==
    /\ Len(DoneC) = 1
    /\ Cardinality(BlockIdx) >= 2
    /\ pieceLength % blockSize # 0
    /\ nRejects > 0
    /\ chokeSeen

\* C7: the number of blocks requested and not yet received never exceeds
\* maxQueuedBlocks (10), whatever the order of Piece, Choke and Unchoke inputs.
C7_AtMostTenInFlight == Cardinality(InFlight) <= maxQueuedBlocks

\* C8: a Reject for a requested block clears its requested flag, and while the
\* downloader runs and the peer is not choking the block is eventually
\* requested again.
C8_RejectedBlockRetried ==
    /\ [](\A i \in rejected : ~blocks[i].requested)
    /\ \A i \in 0 .. MaxBlocks - 1 :
          (i \in rejected /\ pdState = "running" /\ ~peerChoking)
              ~> (i \notin rejected \/ pdState # "running" \/ peerChoking)

C10_ChokeThenUnchokeCompletes ==
    /\ peerChoking => (limiter = LimiterNil /\ InFlight = {})
    /\ (chokeSeen /\ ~peerChoking /\ pdState = "running")
          => ENABLED (RequestSent \/ PeerAnswersInOrder)

-----------------------------------------------------------------------------
(* Properties of the engine loop *)

\* C1: the bits of the bitfield only grow, and a piece that is present (bit
\* set, not being written) is still present after every step of the loop
C1_BitfieldOnlyGrows ==
    [][/\ bitfield \subseteq bitfield'
       /\ \A i \in bitfield \ pieceWriting : i \in bitfield' \ pieceWriting']_vars

\* the download completed by the writer's results, peers still connected
C1_Witness ==
    /\ completed
    /\ Cardinality(bitfield) >= 2
    /\ peers # {}
    /\ status = "Running"

C3_SingleWriter ==
    /\ Cardinality(pieceWriting) <= 1
    /\ Cardinality(writers) <= 1
    /\ pieceWriting = writers
    /\ writers # {} => (pieceMessages = "nil" /\ blockPieceMessages = "chan")
    /\ writers = {} => (pieceMessages = "chan" /\ blockPieceMessages = "nil")

\* a write in flight while another peer's downloader works on another piece
C3_Witness ==
    /\ writers # {}
    /\ \E c \in peers : pieceDownloaders[c] \notin writers \cup {NoPiece}

C6_AtMostUnchokedPeersAfterTick ==
    lastTick = "unchoke" =>
        Cardinality({c \in peers : ~pe[c].AmChoking /\ ~pe[c].OptimisticUnchoked})
            <= config.UnchokedPeers

-----------------------------------------------------------------------------
(* The peerconn.Peer specification *)

InitPeerConn == NoPD /\ NoTorrent /\ NewConn /\ NewSession(0) /\ NewInfoDownloader(0)

RunStarts == RunStart /\ OnlyPeerConn
RunSelects == RunSelect /\ OnlyPeerConn
RunWaitsNext == RunWait /\ OnlyPeerConn
ReaderExit == ReaderExits /\ OnlyPeerConn
WriterExit == WriterExits /\ OnlyPeerConn
CloseCalled == (\E k \in Closers : CloseCall(k)) /\ OnlyPeerConn
CloseReturned == (\E k \in Closers : CloseReturn(k)) /\ OnlyPeerConn

NextPeerConn ==
    \/ RunStarts
    \/ RunSelects
    \/ RunWaitsNext
    \/ ReaderExit
    \/ WriterExit
    \/ CloseCalled
    \/ CloseReturned

SpecPeerConn == InitPeerConn /\ [][NextPeerConn]_vars

-----------------------------------------------------------------------------
(* Properties of peerconn.Peer *)

\* C11: Peer.Close is idempotent: no call of Close, the first or a later one,
\* from the same or from another task, panics
C11_CloseIdempotent == \A k \in Closers : closePC[k] # "panicked"

\* C12: Close has returned only if the connection is closed and the reader and
\* the writer task have both exited; Run has closed closedC only if both
\* tasks have exited and the connection is closed, whichever case the select took
C12_CloseWaitsForBothTasks ==
    /\ \A k \in Closers :
          closePC[k] = "returned" => (connClosed /\ readerDone /\ writerDone)
    /\ closedC => (connClosed /\ readerDone /\ writerDone /\ runPC = "done")

\* Close has returned after the close signal won the select
C12_Witness ==
    /\ \E k \in Closers : closePC[k] = "returned"
    /\ selected = "closeC"

-----------------------------------------------------------------------------
(* Choke and Unchoke messages *)

\* C13: the Choke and Unchoke messages sent to a peer strictly alternate and
\* start with Unchoke: no message was ever sent out of turn, and the last
\* message sent to a connected peer agrees with its AmChoking flag
C13_ChokeUnchokeAlternate ==
    /\ ~chokeRepeated
    /\ \A c \in peers : pe[c].AmChoking = (pe[c].lastChoke # "Unchoke")

\* a connected peer was unchoked and then choked again
C13_Witness == \E c \in peers : pe[c].lastChoke = "Choke"

-----------------------------------------------------------------------------
(* Completion *)

\* C14: when the bitfield becomes complete, completion fires, and it fires
\* once: completeC is closed exactly then and never again; right after it no
\* outgoing handshake is left, no piece downloader is left and every peer
\* still connected is interested; from then on no outgoing dial is started
C14_CompletionFiresOnce ==
    [][ /\ (bitfield # pieces /\ bitfield' = pieces) => (~completed /\ completed')
        /\ (~completed /\ completed') =>
              /\ completeCClosed' = completeCClosed + 1
              /\ completeCClosed' = 1
              /\ outgoingHandshakers' = {}
              /\ \A c \in Clients : pieceDownloaders'[c] = NoPiece
              /\ \A c \in peers' : pe'[c].PeerInterested
        /\ completed =>
              /\ completed'
              /\ completeCClosed' = completeCClosed
              /\ outgoingHandshakers' \subseteq outgoingHandshakers
        /\ ~completed' => completeCClosed' = 0 ]_vars

\* the download completed with an interested peer connected while an
\* outgoing handshake was running: its address is still counted as connected
C14_Witness ==
    /\ completed
    /\ peers # {}
    /\ \E c \in Clients :
          /\ IPOf(c) \in connectedPeerIPs
          /\ c \notin peers \cup incomingHandshakers

-----------------------------------------------------------------------------
(* The failed write *)

\* C15: the step that handles a writer result carrying an error stops the
\* torrent with that error and does not advance the piece: Done stays false,
\* the bit stays clear, no Have is sent and completion is not checked; Writing
\* is reset and the piece-message channel is restored
C15_FailedWriteStopsTorrent ==
    [][lastWriteResult'.failed =>
          LET i == lastWriteResult'.piece
          IN  /\ i \in writers
              /\ status = "Running"
              /\ status' = "Stopping"
              /\ lastError' = "write error"
              /\ i \notin pieceDone'
              /\ i \notin bitfield'
              /\ bitfield' = bitfield
              /\ \A c \in Clients : haveSent'[c] = {}
              /\ completed' = completed
              /\ completeCClosed' = completeCClosed
              /\ i \in pieceWriting
              /\ i \notin pieceWriting'
              /\ pieceMessages = "nil"
              /\ pieceMessages' = "chan"
              /\ blockPieceMessages' = "nil"]_vars

\* the write of the last missing piece of a torrent of two pieces failed:
\* the torrent stops one bit short of completion
C15_Witness ==
    /\ lastWriteResult.failed
    /\ bitfield \cup {lastWriteResult.piece} = pieces
    /\ Cardinality(pieces) >= 2
    /\ ~completed
    /\ status = "Stopping"

-----------------------------------------------------------------------------
(* The error notification *)

\* C16: each time the announcers report stopped, the loop sends lastError on
\* errC, once, and then sets errC to nil; nothing else sends on errC, and the
\* loop never sends on the nil channel
C16_ErrorSentOnce ==
    [][/\ ~sendOnNil'
       /\ announcersStoppedC' < announcersStoppedC =>
             /\ errC = "chan"
             /\ errCValues' = <<lastError>>
             /\ errC' = "nil"
       /\ ~(announcersStoppedC' < announcersStoppedC) =>
             \/ errCValues' = errCValues
             \/ errCValues' = <<>> /\ errC = "nil" /\ errC' = "chan"]_vars

\* a fatal error was reported on the error channel and the channel dropped
C16_Witness ==
    /\ errC = "nil"
    /\ errCValues = <<"resume error">>
    /\ status = "Stopped"

-----------------------------------------------------------------------------
(* The port pool of the session *)

\* a session with no torrent or one torrent loaded from the database
InitSession ==
    NoPD /\ NoTorrent /\ NewConn /\ NewInfoDownloader(0) /\ \E n \in 0 .. 1 : NewSession(n)

AddStarted == (\E k \in Callers : AddGetPort(k)) /\ OnlySession
AddFailed == (\E k \in Callers : AddFail(k)) /\ OnlySession
AddReturned == (\E k \in Callers : AddOK(k)) /\ OnlySession
AddTorrentFailed == (\E k \in Callers : AddTorrentFail(k)) /\ OnlySession
AddTorrentReturned == (\E k \in Callers : AddTorrentOK(k)) /\ OnlySession
TorrentRemoved == (\E id \in TorrentIDs : RemoveTorrent(id)) /\ OnlySession

NextSession ==
    \/ AddStarted
    \/ AddFailed
    \/ AddReturned
    \/ AddTorrentFailed
    \/ AddTorrentReturned
    \/ TorrentRemoved

SpecSession == InitSession /\ [][NextSession]_vars

\* the ports held by torrents, and by calls of add that have not returned
HeldPorts == {torrents[i] : i \in TorrentIDs} \ {NoPort}
PortsInAdd == {addPort[k] : k \in Callers} \ {NoPort}

PortsFreeUnlessHeld ==
    /\ availablePorts = Ports \ (HeldPorts \cup PortsInAdd)
    /\ HeldPorts \cap PortsInAdd = {}
    /\ \A i, j \in TorrentIDs : i # j /\ torrents[i] = torrents[j] => torrents[i] = NoPort
    /\ \A k, l \in Callers : k # l /\ addPort[k] = addPort[l] => addPort[k] = NoPort

\* C17: a port is in availablePorts exactly when no torrent of the session
\* and no add in progress holds it, so between calls exactly when no torrent
\* holds it: add takes one port out of the pool, a failed add and the removal
\* of the torrent put that port back, the removal of an unknown id changes
\* nothing
C17_PortPoolMatchesTorrents ==
    [][/\ PortsFreeUnlessHeld
       /\ PortsFreeUnlessHeld'
       /\ \A k \in Callers :
             /\ (addPC[k] = "idle" /\ addPC'[k] = "add") =>
                   /\ addPort'[k] \in availablePorts
                   /\ availablePorts' = availablePorts \ {addPort'[k]}
             /\ (addPC[k] # "idle" /\ addPC'[k] = "idle" /\ torrents' = torrents) =>
                   availablePorts' = availablePorts \cup {addPort[k]}
             /\ (addPC[k] # "idle" /\ addPC'[k] = "idle" /\ torrents' # torrents) =>
                   /\ availablePorts' = availablePorts
                   /\ addPort[k] \in HeldPorts'
       /\ removedID' # NoID =>
             IF torrents[removedID'] = NoPort
             THEN availablePorts' = availablePorts /\ torrents' = torrents
             ELSE /\ availablePorts' = availablePorts \cup {torrents[removedID']}
                  /\ torrents'[removedID'] = NoPort]_vars

\* a torrent was added and removed, then another add took its port again,
\* with no call in progress
C17_Witness ==
    /\ \A k \in Callers : addPC[k] = "idle"
    /\ HeldPorts # {}
    /\ availablePorts # {}
    /\ \E i, j \in TorrentIDs : i < j /\ torrents[i] = NoPort /\ torrents[j] # NoPort

-----------------------------------------------------------------------------
(* Choke under the Fast extension *)

\* C18: when Choke arrives from a peer that supports the Fast extension and
\* has the piece in its AllowedFast set, the requested flags stay as they
\* are, and no block is requested again while its request is outstanding
C18_AllowedFastRequestsKept ==
    [][allowedFast =>
          /\ (nChokes' # nChokes /\ peerChoking') =>
                \A i \in BlockIdx : blocks'[i].requested = blocks[i].requested
          /\ \A i \in BlockIdx : outstanding'[i] <= 1]_vars

-----------------------------------------------------------------------------
(* The end of PieceDownloader.Run *)

\* C19: the step that receives the stop signal ends Run without a Request,
\* without a value on DoneC or ErrC and without closing the peer; DoneC and
\* ErrC together carry at most one value over a run, the value is emitted by
\* the step that ends Run, and once Run has ended nothing is sent to the peer
C19_StopExitsSilently ==
    [][/\ (/\ pdState = "running"
           /\ pdState' = "returned"
           /\ blocks' = blocks
           /\ nRejects' = nRejects) =>
              /\ DoneC' = DoneC
              /\ ErrC' = ErrC
              /\ outstanding' = outstanding
              /\ peerClosed' = peerClosed
       /\ Len(DoneC') + Len(ErrC') <= 1
       /\ Len(DoneC') + Len(ErrC') = 1 => pdState' = "returned"
       /\ pdState # "running" =>
              /\ DoneC' = DoneC
              /\ ErrC' = ErrC
              /\ outstanding' = outstanding
              /\ peerClosed' = peerClosed]_vars

\* Run was stopped after a Choke, with Requests unanswered and nothing emitted
C19_Witness ==
    /\ pdState = "returned"
    /\ DoneC = <<>>
    /\ ErrC = <<>>
    /\ chokeSeen
    /\ \E i \in BlockIdx : outstanding[i] > 0

-----------------------------------------------------------------------------
(* The metadata requests *)

\* metadata sizes of up to MaxInfoBlocks blocks, with and without a short
\* last block, and the empty metadata
MetadataSizes ==
    {0} \cup {n * blockSize : n \in 1 .. MaxInfoBlocks}
        \cup {(n - 1) * blockSize + 1 : n \in 1 .. MaxInfoBlocks}
        \cup {n * blockSize - 1 : n \in 1 .. MaxInfoBlocks}

\* lengths of the data of a metadata message
DataLengths == {0, 1, blockSize - 1, blockSize}

InitInfoDownloader ==
    /\ NoPD
    /\ NoTorrent
    /\ NewConn
    /\ NewSession(0)
    /\ \E size \in MetadataSizes : NewInfoDownloader(size)

BlocksRequested ==
    /\ \E queueLength \in 0 .. MaxQueueLength : RequestBlocks(queueLength)
    /\ OnlyInfoDownloader

BlockReceived ==
    /\ \E index \in 0 .. MaxInfoBlocks, len \in DataLengths : GotBlock(index, len)
    /\ OnlyInfoDownloader

NextInfoDownloader ==
    \/ BlocksRequested
    \/ BlockReceived

SpecInfoDownloader == InitInfoDownloader /\ [][NextInfoDownloader]_vars

StrictlyAscending(seq) == \A a, b \in 1 .. Len(seq) : a < b => seq[a] < seq[b]

\* C20: the indices of the metadata requests are strictly ascending over the
\* whole life of the InfoDownloader, so none is requested twice; a call
\* RequestBlocks(k) sends at most k requests, and after it the number of
\* blocks requested and not received is at most the larger of k and that
\* number before the call; GotBlock sends no request
C20_RequestsAscendingAndBounded ==
    [][/\ StrictlyAscending(requestLog')
       /\ lastRequest'.called =>
             /\ requestLog' = requestLog \o lastRequest'.sent
             /\ Len(lastRequest'.sent) <= lastRequest'.queueLength
             /\ \/ Cardinality(infoRequested') <= lastRequest'.queueLength
                \/ Cardinality(infoRequested') <= Cardinality(infoRequested)
             /\ \A a \in 1 .. Len(lastRequest'.sent) :
                   /\ lastRequest'.sent[a] \in infoRequested'
                   /\ lastRequest'.sent[a] \in DOMAIN infoBlocks
       /\ ~lastRequest'.called => requestLog' = requestLog]_vars

\* a call of RequestBlocks sent a request for a later block after an earlier
\* block had been received, leaving two blocks requested
C20_Witness ==
    /\ lastRequest.called
    /\ Len(lastRequest.sent) >= 1
    /\ Len(requestLog) > Len(lastRequest.sent)
    /\ Cardinality(infoRequested) = 2
    /\ \E i \in DOMAIN infoBlocks : i < nextBlockIndex /\ i \notin infoRequested

-----------------------------------------------------------------------------
(* The metadata blocks *)

\* C21: GotBlock(i, data) returns an error exactly when i is not requested
\* (any i outside the blocks included) or the length of data is not the size
\* of block i; an error leaves the buffer, the requested set and the cursor
\* as they were, and no index or slice bound is ever out of range
C21_GotBlockValidates ==
    [][/\ ~infoPanicked'
       /\ lastGot'.called =>
             LET i == lastGot'.index
                 bad == IF i \notin infoRequested THEN TRUE
                        ELSE lastGot'.len # infoBlocks[i].size
             IN  /\ lastGot'.err = bad
                 /\ infoRequested \subseteq DOMAIN infoBlocks
                 /\ nextBlockIndex' = nextBlockIndex
                 /\ bad => Bytes' = Bytes /\ infoRequested' = infoRequested
                 /\ ~bad => /\ infoRequested' = infoRequested \ {i}
                            /\ Bytes' # Bytes]_vars

\* data of the wrong length was refused for a requested block, after another
\* block had been stored
C21_Witness ==
    /\ lastGot.called
    /\ lastGot.err
    /\ lastGot.index \in infoRequested
    /\ Bytes # {}

RECURSIVE SumSizes(_, _)
SumSizes(bs, n) == IF n = 0 THEN 0 ELSE SumSizes(bs, n - 1) + bs[n - 1].size

\* C22: for the metadata size M there are ceil(M / 16384) blocks, each of
\* 16384 bytes but the last one, which has M mod 16384 bytes when that is not
\* zero; the sizes add up to M, and the bytes copied for block i are the
\* range from i * 16384 to i * 16384 + size of block i, inside the buffer
C22_BlocksCoverMetadata ==
    /\ NumInfoBlocks = (metadataSize + blockSize - 1) \div blockSize
    /\ DOMAIN infoBlocks = 0 .. NumInfoBlocks - 1
    /\ \A i \in DOMAIN infoBlocks :
          infoBlocks[i].size =
              IF i = NumInfoBlocks - 1 /\ metadataSize % blockSize # 0
              THEN metadataSize % blockSize ELSE blockSize
    /\ SumSizes(infoBlocks, NumInfoBlocks) = metadataSize
    /\ metadataSize = 0 => NumInfoBlocks = 0
    /\ \A r \in Bytes :
          \E i \in DOMAIN infoBlocks :
              /\ r[1] = i * blockSize
              /\ r[2] = i * blockSize + infoBlocks[i].size
              /\ r[2] <= metadataSize

\* the short last block of a metadata of several blocks was stored
C22_Witness ==
    /\ metadataSize % blockSize # 0
    /\ NumInfoBlocks >= 2
    /\ <<(NumInfoBlocks - 1) * blockSize, metadataSize>> \in Bytes

-----------------------------------------------------------------------------
(* The regular unchoke tick *)

\* the peers a regular unchoke tick considers, and the counter it ranks by
Considered == {c \in peers : pe[c].PeerInterested /\ ~pe[c].OptimisticUnchoked}
PeriodBytes(c) == IF completed THEN pe[c].up ELSE pe[c].down

\* C23: a regular unchoke tick leaves unchoked min(UnchokedPeers, n) of the n
\* interested peers that are not optimistically unchoked, none of them with
\* fewer period bytes (downloaded while leeching, uploaded while seeding)
\* than a considered peer it leaves choked; it leaves the choke state of the
\* other peers alone and resets both period counters of every connected peer
C23_UnchokeTickRanksPeers ==
    [][lastTick' = "unchoke" =>
          LET unchoked == {c \in Considered : ~pe'[c].AmChoking}
              n == Cardinality(Considered)
          IN  /\ peers' = peers
              /\ Cardinality(unchoked) =
                    IF config.UnchokedPeers < n THEN config.UnchokedPeers ELSE n
              /\ \A c \in unchoked, d \in Considered \ unchoked :
                    PeriodBytes(c) >= PeriodBytes(d)
              /\ \A c \in peers \ Considered : pe'[c].AmChoking = pe[c].AmChoking
              /\ \A c \in peers : pe'[c].down = 0 /\ pe'[c].up = 0]_vars

\* a tick of a seeding torrent: one peer unchoked, a second considered peer
\* choked, and a peer the tick did not consider
C23_Witness ==
    /\ lastTick = "unchoke"
    /\ completed
    /\ \E c, d \in peers :
          /\ c # d
          /\ pe[c].PeerInterested /\ ~pe[c].AmChoking /\ ~pe[c].OptimisticUnchoked
          /\ pe[d].PeerInterested /\ pe[d].AmChoking /\ pe[d].lastChoke = "Choke"

-----------------------------------------------------------------------------
(* Admission of incoming connections *)

Accepted == Cardinality(incomingHandshakers) + Cardinality(incomingPeers)

\* C24: the incoming handshakers and incoming peers together never exceed
\* MaxPeerAccept; in every state, a connection that arrives from any client
\* over the limit, from a blocked IP or from an IP in connectedPeerIPs leaves
\* the handshakers, the reserved IPs and the peer maps as they are, and any
\* other connection adds its handshaker and its IP and nothing else
C24_AcceptLimit ==
    /\ Accepted <= config.MaxPeerAccept
    /\ \A c \in Clients :
          LET t2 == incomingConnCase(T, c)
              refused == \/ Accepted >= config.MaxPeerAccept
                         \/ IPOf(c) \in config.blocklist
                         \/ IPOf(c) \in connectedPeerIPs
          IN  /\ t2.peers = peers
              /\ t2.incomingPeers = incomingPeers
              /\ t2.outgoingPeers = outgoingPeers
              /\ t2.peerIDs = peerIDs
              /\ t2.outgoingHandshakers = outgoingHandshakers
              /\ refused =>
                    /\ t2.incomingHandshakers = incomingHandshakers
                    /\ t2.connectedPeerIPs = connectedPeerIPs
              /\ ~refused =>
                    /\ c \notin incomingHandshakers
                    /\ t2.incomingHandshakers = incomingHandshakers \cup {c}
                    /\ t2.connectedPeerIPs = connectedPeerIPs \cup {IPOf(c)}

\* the accept limit of two is reached by a handshaker and a peer, so that the
\* remaining client is refused
C24_Witness ==
    /\ config.MaxPeerAccept = 2
    /\ incomingHandshakers # {}
    /\ incomingPeers # {}
    /\ Accepted = 2

-----------------------------------------------------------------------------
(* Dialling *)

DialledOf(t) == Cardinality(t.outgoingPeers) + Cardinality(t.outgoingHandshakers)

\* what a call of dialAddresses that turns the torrent t into t2 may do: stay
\* within the dial budget, start handshakers only to IPs that were not
\* reserved, one per IP, and signal NeedMorePeers(true) exactly when it stops
\* short of the budget, the address list being empty then
DialsWithinBudget(t, t2) ==
    LET new == t2.outgoingHandshakers \ t.outgoingHandshakers
    IN  /\ DialledOf(t2) <= t2.config.MaxPeerDial
        /\ \A h \in new :
              /\ IPOf(h) \notin t.connectedPeerIPs
              /\ IPOf(h) \in t2.connectedPeerIPs
              /\ \A g \in new : IPOf(g) = IPOf(h) => g = h
        /\ t2.needMorePeers =>
              t2.addrList = {} /\ DialledOf(t2) < t2.config.MaxPeerDial
        /\ (t2.needMorePeers /\ ~t.needMorePeers) <=>
              /\ ~t.needMorePeers
              /\ ~t.completed
              /\ DialledOf(t2) < t2.config.MaxPeerDial

\* C25: the outgoing peers and outgoing handshakers together never exceed
\* MaxPeerDial, no outgoing handshaker shares its IP with another connection,
\* and in every state dialAddresses, called directly or with any list of new
\* addresses, starts handshakers only to IPs not in connectedPeerIPs and
\* signals NeedMorePeers(true) exactly when the list runs out before the
\* budget is filled
C25_DialBudget ==
    /\ DialledOf(T) <= config.MaxPeerDial
    /\ \A h \in outgoingHandshakers :
          \A x \in peers \cup incomingHandshakers \cup outgoingHandshakers :
              IPOf(x) = IPOf(h) => x = h
    /\ DialsWithinBudget(T, dialAddresses(T))
    /\ \A addrs \in SUBSET Clients :
          DialsWithinBudget(setNeedMorePeers(T, FALSE), handleNewPeers(T, addrs))

\* a dial ran out of addresses below the budget of two and signalled that,
\* with one handshaker started
C25_Witness ==
    /\ config.MaxPeerDial = 2
    /\ Cardinality(outgoingHandshakers) = 1
    /\ outgoingPeers = {}
    /\ needMorePeers
    /\ addrList = {}

-----------------------------------------------------------------------------
(* The piece channel handed to a peer *)

\* C26: once the loop receives piece messages again, every connected peer
\* holds the channel the loop receives from, so that its Piece blocks reach
\* the loop
C26_PeersHoldPieceChannel ==
    pieceMessages = "chan" => \A c \in peers : pe[c].pieceC = "chan"

-----------------------------------------------------------------------------
(* Reserved IPs *)

\* C27: every IP in connectedPeerIPs is the IP of a handshaker in
\* incomingHandshakers or outgoingHandshakers or of a peer in peers
C27_ReservedIPsAreConnected ==
    connectedPeerIPs
        \subseteq {IPOf(c) : c \in peers \cup incomingHandshakers \cup outgoingHandshakers}

-----------------------------------------------------------------------------
(* Requests and received data *)

\* C28: a Request is sent only for a block whose data has not been received
C28_NoRequestForReceivedBlock ==
    [][\A i \in BlockIdx :
          outstanding'[i] > outstanding[i] => blocks[i].data = NoData]_vars

-----------------------------------------------------------------------------
(* The slot taken back on a Piece block *)

\* C29: Run never waits in the receive from the limiter that the Piece case
\* makes for a requested block without data: the limiter holds a token then
C29_PieceCaseNeverBlocks == pdState # "blocked"

-----------------------------------------------------------------------------
(* The optimistic flag and the optimistic list *)

\* C30: a connected peer has OptimisticUnchoked set only while it is in the
\* list optimisticUnchokedPeers
C30_OptimisticFlagOnlyInList ==
    \A c \in peers :
        pe[c].OptimisticUnchoked =>
            \E k \in DOMAIN optimisticUnchokedPeers :
                /\ optimisticUnchokedPeers[k].peer = c
                /\ ~optimisticUnchokedPeers[k].closed

-----------------------------------------------------------------------------
(* The entries of the optimistic list *)

\* C31: every entry of optimisticUnchokedPeers is a peer in peers and no peer
\* is listed twice, so that no optimistic tick finds a closed peer in the list
C31_OptimisticListHoldsLivePeers ==
    /\ \A k \in DOMAIN optimisticUnchokedPeers :
          /\ ~optimisticUnchokedPeers[k].closed
          /\ optimisticUnchokedPeers[k].peer \in peers
    /\ \A k, l \in DOMAIN optimisticUnchokedPeers :
          optimisticUnchokedPeers[k].peer = optimisticUnchokedPeers[l].peer => k = l

-----------------------------------------------------------------------------
(* The assertion of the writer-result case *)

\* C32: the loop never handles a successful writer result for a piece whose
\* bit is already set: panic("already have the piece") is never reached.  A
\* piece that is being written has no bit and no downloader, and handling
\* the last block of a piece leaves no downloader on that piece, in endgame
\* too
C32_NeverAlreadyHaveThePiece ==
    /\ ~panicked
    /\ pieceWriting \cap bitfield = {}
    /\ \A c \in Clients : pieceDownloaders[c] \notin bitfield \cup pieceWriting
    /\ \A c \in peers :
          pieceDownloaders[c] # NoPiece =>
              LET t2 == handlePieceMessage(T, c, TRUE)
              IN  /\ pieceDownloaders[c] \in t2.pieceWriting
                  /\ \A d \in Clients : t2.pieceDownloaders[d] # pieceDownloaders[c]

\* endgame: two peers download the same piece and the loop is ready to take
\* the last block from either of them
C32_Witness ==
    /\ pieceMessages = "chan"
    /\ \E c, d \in peers :
          /\ c # d
          /\ pieceDownloaders[c] # NoPiece
          /\ pieceDownloaders[c] = pieceDownloaders[d]
          /\ pe[c].pieceC = "chan"
          /\ pe[d].pieceC = "chan"

-----------------------------------------------------------------------------
(* Done and the accepted blocks of the InfoDownloader *)

\* the range of d.Bytes the block of an index is copied to
RangeOf(i) == <<i * blockSize, i * blockSize + infoBlocks[i].size>>

BlockAccepted(i) == i \in DOMAIN infoBlocks /\ RangeOf(i) \in Bytes

\* C33: when Done() is true every block index has been requested and
\* accepted; GotBlock accepts an index only if it has been requested and has
\* not been accepted before, and a GotBlock for an index accepted before
\* returns an error and leaves the buffer and the requested set as they are
C33_DoneMeansEachBlockOnce ==
    [][/\ Done' =>
             \A i \in DOMAIN infoBlocks :
                 /\ \E a \in 1 .. Len(requestLog') : requestLog'[a] = i
                 /\ BlockAccepted(i)'
       /\ (lastGot'.called /\ ~lastGot'.err) =>
             /\ ~BlockAccepted(lastGot'.index)
             /\ \E a \in 1 .. Len(requestLog) : requestLog[a] = lastGot'.index
             /\ Bytes' = Bytes \cup {RangeOf(lastGot'.index)}
       /\ (lastGot'.called /\ BlockAccepted(lastGot'.index)) =>
             /\ lastGot'.err
             /\ Bytes' = Bytes
             /\ infoRequested' = infoRequested]_vars

\* Done() is true for metadata of more than one block, and a GotBlock for a
\* block accepted before has just been turned away
C33_Witness ==
    /\ Done
    /\ NumInfoBlocks > 1
    /\ lastGot.called
    /\ lastGot.err
    /\ BlockAccepted(lastGot.index)

-----------------------------------------------------------------------------
(* The torrents registered under an info-hash *)

\* the torrents a DHT result for the info-hash ih is handed to
Registered(ih) == {torrentsByInfoHash[ih][a] : a \in 1 .. Len(torrentsByInfoHash[ih])}

\* C34: torrentsByInfoHash[ih] holds exactly the torrents of s.torrents whose
\* info-hash is ih
C34_ByInfoHashMatchesTorrents ==
    \A ih \in InfoHashes :
        Registered(ih) = {i \in TorrentIDs : torrents[i] # NoPort /\ infoHashOf[i] = ih}

====
